---------------------------- MODULE Spec2Model ----------------------------
(***************************************************************************)
(* Snippet engine of helix-core: elaboration of a parsed template          *)
(* (snippets/elaborate.rs), rendering (snippets/render.rs), the active     *)
(* session (snippets/active.rs) and the sorted-range containment test      *)
(* (helix-stdx/src/range.rs).                                              *)
(*                                                                         *)
(* Conventions: an Option<T> is a sequence of length 0 (None) or 1         *)
(* (Some(v) = <<v>>); a text is a sequence of one-character strings; a     *)
(* TabstopIdx is a natural number, 0-based as in the source, so the        *)
(* record of index i in a table t is t[i + 1].                             *)
(***************************************************************************)
EXTENDS Integers, Sequences, FiniteSets, TLC

VARIABLES
    pc,          \* position of the host: which call it makes next
    template,    \* Vec<parser::SnippetElement> handed to Snippet::new
    fixed,       \* Snippet::new's `res` after fixup_tabstops
    ensured,     \* Snippet::new's `res` after ensure_last_tabstop
    snippet,     \* the elaborated Snippet { elements, tabstops }
    rendered,    \* RenderedSnippet { tabstops, ranges }
    resolver,    \* the VariableResolver of the render pass
    newline,     \* newline_with_offset of the last render_at
    outText,     \* text returned by the last render_at
    outLen,      \* length returned by the last render_at
    points,      \* number of insertion points rendered so far
    off,         \* the running offset `off` of Snippet::render
    lastTo,      \* end of the last replaced range (selection ranges are sorted)
    superSet,    \* first argument of is_subset
    subSet,      \* second argument of is_subset
    subsetRes,   \* result of is_subset
    active,      \* ActiveSnippet { ranges, active_tabstops, active_tabstop, tabstops }
    selection,   \* the host's current selection
    validRes,    \* result of the last is_valid
    navRes,      \* result of the last next_tabstop / prev_tabstop
    docLen,      \* number of characters of the document
    maps,        \* number of map calls so far
    dbg,         \* debug assertions of map that failed in the last call
    prior,       \* the ActiveSnippet before the last map or insert_snippet
    edit,        \* the ChangeSet of the last map
    inserted,    \* the RenderedSnippet of the last insert_snippet
    trail        \* the visits of one navigation pass: what each call returned

vars == <<pc, template, fixed, ensured, snippet, rendered, resolver, newline,
          outText, outLen, points, off, lastTo, superSet, subSet, subsetRes, active,
          selection, validRes, navRes, docLen, maps, dbg, prior, edit, inserted, trail>>

None == <<>>
Some(v) == <<v>>
IsSome(o) == Len(o) = 1
Unwrap(o) == o[1]

Max(a, b) == IF a >= b THEN a ELSE b
Min(a, b) == IF a <= b THEN a ELSE b

RECURSIVE Concat(_)
Concat(ss) == IF ss = <<>> THEN <<>> ELSE Head(ss) \o Concat(Tail(ss))

(***************************************************************************)
(* Bounds                                                                  *)
(***************************************************************************)
MaxRaw == 2          \* raw tabstop numbers of generated templates: 0..MaxRaw
MaxNodes == 2        \* number of nodes of a generated template
MaxRenderNodes == 1  \* number of nodes of a generated template that is rendered
MaxPoints == 2       \* number of simultaneous insertion points of one render
DocLen == 1          \* number of characters of the document before the insertion
MaxPos == 1          \* start offsets handed to render_at directly: 0..MaxPos
MaxCoord == 3        \* coordinates of the ranges handed to is_subset: 0..MaxCoord
MaxRanges == 2       \* number of ranges of each argument of is_subset
MaxMaps == 2         \* number of map calls of one session
MaxInsert == 1       \* number of characters one edit inserts
MaxDelete == 2       \* number of characters one edit deletes
MaxWidth == 1        \* width of the ranges of the selections handed to is_valid

(***************************************************************************)
(* snippets.rs                                                             *)
(***************************************************************************)
LAST_TABSTOP_IDX == 0

(***************************************************************************)
(* parser::SnippetElement, parser::Transform, FormatItem (input contract)  *)
(***************************************************************************)
PTransform(regex, replacement, options) ==
    [regex |-> regex, replacement |-> replacement, options |-> options]

FmtText(t) == [f |-> "Text", text |-> t, i |-> 0, change |-> "", els |-> <<>>]
FmtCapture(i) == [f |-> "Capture", text |-> <<>>, i |-> i, change |-> "", els |-> <<>>]
FmtCaseChange(i, c) == [f |-> "CaseChange", text |-> <<>>, i |-> i, change |-> c, els |-> <<>>]
FmtConditional(i, if, else) ==
    [f |-> "Conditional", text |-> if, i |-> i, change |-> "", els |-> else]

PText(t) ==
    [type |-> "Text", text |-> t, tabstop |-> 0, value |-> <<>>, choices |-> <<>>,
     name |-> "", default |-> None, transform |-> None]
PTabstop(n, tr) ==
    [type |-> "Tabstop", text |-> <<>>, tabstop |-> n, value |-> <<>>, choices |-> <<>>,
     name |-> "", default |-> None, transform |-> tr]
PPlaceholder(n, v) ==
    [type |-> "Placeholder", text |-> <<>>, tabstop |-> n, value |-> v, choices |-> <<>>,
     name |-> "", default |-> None, transform |-> None]
PChoice(n, cs) ==
    [type |-> "Choice", text |-> <<>>, tabstop |-> n, value |-> <<>>, choices |-> cs,
     name |-> "", default |-> None, transform |-> None]
PVariable(nm, d, tr) ==
    [type |-> "Variable", text |-> <<>>, tabstop |-> 0, value |-> <<>>, choices |-> <<>>,
     name |-> nm, default |-> d, transform |-> tr]

(***************************************************************************)
(* elaborate.rs: SnippetElement, Tabstop, TabstopKind                      *)
(***************************************************************************)
ElemTabstop(i) ==
    [type |-> "Tabstop", idx |-> i, text |-> <<>>, name |-> "", default |-> None,
     transform |-> None]
ElemVariable(nm, d, tr) ==
    [type |-> "Variable", idx |-> 0, text |-> <<>>, name |-> nm, default |-> d,
     transform |-> tr]
ElemText(t) ==
    [type |-> "Text", idx |-> 0, text |-> t, name |-> "", default |-> None,
     transform |-> None]

KindChoice(cs) == [k |-> "Choice", choices |-> cs, default |-> <<>>, transform |-> None]
KindPlaceholder(d) == [k |-> "Placeholder", choices |-> <<>>, default |-> d, transform |-> None]
KindEmpty == [k |-> "Empty", choices |-> <<>>, default |-> <<>>, transform |-> None]
KindTransform(t) == [k |-> "Transform", choices |-> <<>>, default |-> <<>>, transform |-> Some(t)]

Tabstop(i, p, kd) == [idx |-> i, parent |-> p, kind |-> kd]

\* TabstopKind::is_empty
KindIsEmpty(kd) == kd.k = "Empty"

(***************************************************************************)
(* Transform::new: the options are scanned (an unknown character only sets *)
(* a flag that is logged), then the regex is built; only a regex that does *)
(* not compile gives None.  A regex is modelled by the literal character   *)
(* it matches; "(" is the pattern that does not compile.                   *)
(***************************************************************************)
RegexCompiles(regex) == regex # "("

HasOption(options, c) == \E i \in 1..Len(options) : options[i] = c

TransformNew(tr) ==
    LET global == HasOption(tr.options, "g")
        case_insensitive == HasOption(tr.options, "i")
    IN  IF ~RegexCompiles(tr.regex)
        THEN None
        ELSE Some([regex |-> tr.regex, insensitive |-> case_insensitive,
                   global |-> global, replacement |-> tr.replacement])

\* transform.and_then(Transform::new)
TransformAndThenNew(otr) == IF IsSome(otr) THEN TransformNew(Unwrap(otr)) ELSE None

(***************************************************************************)
(* Snippet::elaborate and its helpers.  The table self.tabstops is         *)
(* threaded through: every call returns the extended table.                *)
(***************************************************************************)
RECURSIVE Elaborate(_, _, _)
RECURSIVE ElaborateElement(_, _, _)
RECURSIVE ElaboratePlaceholder(_, _, _, _)

ElaborateChoice(idx, parent, choices, tabs) ==
    Append(tabs, Tabstop(idx, parent, KindChoice(choices)))

ElaboratePlaceholder(idx, parent, default, tabs) ==
    LET r == Elaborate(default, Some(idx), tabs)
    IN  Append(r.tabstops, Tabstop(idx, parent, KindPlaceholder(r.elements)))

ElaborateTransform(idx, parent, transform, tabs) ==
    LET t == TransformNew(transform)
    IN  IF IsSome(t)
        THEN Append(tabs, Tabstop(idx, parent, KindTransform(Unwrap(t))))
        ELSE Append(tabs, Tabstop(idx, parent, KindEmpty))

ElaborateElement(val, parent, tabs) ==
    CASE val.type = "Tabstop" /\ val.transform = None ->
           [element |-> ElemTabstop(val.tabstop),
            tabstops |-> ElaboratePlaceholder(val.tabstop, parent, <<>>, tabs)]
      [] val.type = "Tabstop" /\ val.transform # None ->
           [element |-> ElemTabstop(val.tabstop),
            tabstops |-> ElaborateTransform(val.tabstop, parent, Unwrap(val.transform), tabs)]
      [] val.type = "Placeholder" ->
           [element |-> ElemTabstop(val.tabstop),
            tabstops |-> ElaboratePlaceholder(val.tabstop, parent, val.value, tabs)]
      [] val.type = "Choice" ->
           [element |-> ElemTabstop(val.tabstop),
            tabstops |-> ElaborateChoice(val.tabstop, parent, val.choices, tabs)]
      [] val.type = "Variable" ->
           IF IsSome(val.default)
           THEN LET r == Elaborate(Unwrap(val.default), parent, tabs)
                IN  [element |-> ElemVariable(val.name, Some(r.elements),
                                              TransformAndThenNew(val.transform)),
                     tabstops |-> r.tabstops]
           ELSE [element |-> ElemVariable(val.name, None,
                                          TransformAndThenNew(val.transform)),
                 tabstops |-> tabs]
      [] val.type = "Text" ->
           [element |-> ElemText(val.text), tabstops |-> tabs]

Elaborate(default, parent, tabs) ==
    IF default = <<>>
    THEN [elements |-> <<>>, tabstops |-> tabs]
    ELSE LET r1 == ElaborateElement(Head(default), parent, tabs)
             r2 == Elaborate(Tail(default), parent, r1.tabstops)
         IN  [elements |-> <<r1.element>> \o r2.elements, tabstops |-> r2.tabstops]

(***************************************************************************)
(* Snippet::fixup_tabstops: a stable sort by raw index, then dedup_by,     *)
(* whose closure gets the later record as tabstop1 and the retained one as *)
(* tabstop2.                                                               *)
(***************************************************************************)
RECURSIVE InsertByIdx(_, _)
InsertByIdx(sorted, t) ==
    IF sorted = <<>> THEN <<t>>
    ELSE IF sorted[Len(sorted)].idx <= t.idx
         THEN Append(sorted, t)
         ELSE Append(InsertByIdx(SubSeq(sorted, 1, Len(sorted) - 1), t),
                     sorted[Len(sorted)])

RECURSIVE SortByIdx(_)
SortByIdx(tabs) ==
    IF tabs = <<>> THEN <<>>
    ELSE InsertByIdx(SortByIdx(SubSeq(tabs, 1, Len(tabs) - 1)), tabs[Len(tabs)])

RECURSIVE DedupByIdx(_, _)
DedupByIdx(out, rest) ==
    IF rest = <<>> THEN out
    ELSE LET tabstop1 == Head(rest)
         IN  IF out = <<>> \/ tabstop1.idx # out[Len(out)].idx
             THEN DedupByIdx(Append(out, tabstop1), Tail(rest))
             ELSE IF KindIsEmpty(out[Len(out)].kind)
                  THEN DedupByIdx([out EXCEPT ![Len(out)] = tabstop1], Tail(rest))
                  ELSE DedupByIdx(out, Tail(rest))

SortOnly(tabs) == SortByIdx(tabs)

FixupTabstops(tabs) == DedupByIdx(<<>>, SortByIdx(tabs))

(***************************************************************************)
(* Snippet::ensure_last_tabstop                                            *)
(***************************************************************************)
EnsureAlways(s) ==
    [elements |-> Append(s.elements, ElemTabstop(LAST_TABSTOP_IDX)),
     tabstops |-> <<Tabstop(LAST_TABSTOP_IDX, None, KindEmpty)>> \o s.tabstops]

EnsureLastTabstop(s) ==
    IF s.tabstops # <<>> /\ s.tabstops[1].idx = LAST_TABSTOP_IDX
    THEN s
    ELSE [elements |-> Append(s.elements, ElemTabstop(LAST_TABSTOP_IDX)),
          tabstops |-> <<Tabstop(LAST_TABSTOP_IDX, None, KindEmpty)>> \o s.tabstops]

(***************************************************************************)
(* binary_search_by_key(..).expect("all tabstops have been resolved"):     *)
(* the position of the record with that raw index; Missing when the search *)
(* fails (the expect panics).                                              *)
(***************************************************************************)
Missing == 0 - 1

SearchOffByOne(tabs, key) ==
    IF \E i \in 1..Len(tabs) : tabs[i].idx = key
    THEN (CHOOSE i \in 1..Len(tabs) : tabs[i].idx = key)
    ELSE Missing

BinarySearchByIdx(tabs, key) ==
    IF \E i \in 1..Len(tabs) : tabs[i].idx = key
    THEN (CHOOSE i \in 1..Len(tabs) : tabs[i].idx = key) - 1
    ELSE Missing

(***************************************************************************)
(* Snippet::renumber_tabstops_in and Snippet::renumber_tabstops            *)
(***************************************************************************)
RECURSIVE RenumberTabstopsIn(_, _)
RenumberTabstopsIn(tabs, elements) ==
    [n \in 1..Len(elements) |->
        LET elem == elements[n]
        IN  CASE elem.type = "Tabstop" ->
                   [elem EXCEPT !.idx = BinarySearchByIdx(tabs, elem.idx)]
              [] elem.type = "Variable" ->
                   IF IsSome(elem.default)
                   THEN [elem EXCEPT !.default =
                             Some(RenumberTabstopsIn(tabs, Unwrap(elem.default)))]
                   ELSE elem
              [] elem.type = "Text" -> elem]

RenumberTabstops(s) ==
    [elements |-> RenumberTabstopsIn(s.tabstops, s.elements),
     tabstops |->
        [i \in 1..Len(s.tabstops) |->
            LET t == s.tabstops[i]
                parent == IF IsSome(t.parent)
                          THEN Some(BinarySearchByIdx(s.tabstops, Unwrap(t.parent)))
                          ELSE None
                kind == IF t.kind.k = "Placeholder"
                        THEN KindPlaceholder(RenumberTabstopsIn(s.tabstops, t.kind.default))
                        ELSE t.kind
            IN  Tabstop(t.idx, parent, kind)]]

(***************************************************************************)
(* Snippet::new                                                            *)
(***************************************************************************)
Elaborated(elements) == Elaborate(elements, None, <<>>)

Fixed(elements) ==
    LET r == Elaborated(elements)
    IN  [elements |-> r.elements, tabstops |-> FixupTabstops(r.tabstops)]

Ensured(elements) == EnsureLastTabstop(Fixed(elements))

SnippetNew(elements) == RenumberTabstops(Ensured(elements))

(***************************************************************************)
(* helix-stdx Range                                                        *)
(***************************************************************************)
Range(s, e) == [start |-> s, end |-> e]

\* Range::contains
RangeContains(self, other) == (self.start <= other.start) /\ (other.end <= self.end)

\* Range::is_empty
RangeIsEmpty(self) == self.end <= self.start

(***************************************************************************)
(* Transform::apply.  The regex is a literal character, so a match is one  *)
(* occurrence of it, capture group 0 is that character and no other group  *)
(* exists.                                                                 *)
(***************************************************************************)
ToUpper(c) == CASE c = "a" -> "A" [] c = "b" -> "B" [] c = "x" -> "X" [] OTHER -> c
ToLower(c) == CASE c = "A" -> "a" [] c = "B" -> "b" [] c = "X" -> "x" [] OTHER -> c

RegexMatchesAt(tr, text, p) ==
    IF tr.insensitive THEN ToLower(text[p]) = ToLower(tr.regex) ELSE text[p] = tr.regex

FormatItemText(fmt, c) ==
    CASE fmt.f = "Text" -> fmt.text
      [] fmt.f = "Capture" -> IF fmt.i = 0 THEN <<c>> ELSE <<>>
      [] fmt.f = "CaseChange" ->
           IF fmt.i # 0 THEN <<>>
           ELSE CASE fmt.change = "Upcase" -> <<ToUpper(c)>>
                  [] fmt.change = "Downcase" -> <<ToLower(c)>>
                  [] fmt.change = "Capitalize" -> <<ToUpper(c)>>
      [] fmt.f = "Conditional" -> IF fmt.i # 0 THEN fmt.els ELSE fmt.text

ReplacementText(tr, c) ==
    Concat([n \in 1..Len(tr.replacement) |-> FormatItemText(tr.replacement[n], c)])

RECURSIVE TransformApplyFrom(_, _, _)
TransformApplyFrom(tr, text, p) ==
    IF p > Len(text) THEN <<>>
    ELSE IF RegexMatchesAt(tr, text, p)
         THEN ReplacementText(tr, text[p]) \o
              (IF tr.global THEN TransformApplyFrom(tr, text, p + 1)
               ELSE SubSeq(text, p + 1, Len(text)))
         ELSE <<text[p]>> \o TransformApplyFrom(tr, text, p + 1)

\* the characters apply pushes to buf
TransformApply(tr, text) == TransformApplyFrom(tr, text, 1)

(***************************************************************************)
(* render.rs: TabstopKind, Tabstop, RenderedSnippet, Snippet::prepare_render *)
(***************************************************************************)
RKind(k, cs, tr) == [k |-> k, choices |-> cs, transform |-> tr]

RTabstop(rs, p, kd) == [ranges |-> rs, parent |-> p, kind |-> kd]

\* Tabstop::has_placeholder
HasPlaceholder(t) == t.kind.k \in {"Choice", "Placeholder"}

PrepareRenderKind(kd) ==
    CASE kd.k = "Choice" -> RKind("Choice", kd.choices, None)
      [] kd.k \in {"Empty", "Placeholder"} -> RKind("Empty", <<>>, None)
      [] kd.k = "Transform" -> RKind("Transform", <<>>, kd.transform)

PrepareRender(s) ==
    [tabstops |-> [i \in 1..Len(s.tabstops) |->
                      RTabstop(<<>>, s.tabstops[i].parent,
                               PrepareRenderKind(s.tabstops[i].kind))],
     ranges |-> <<>>]

(***************************************************************************)
(* SnippetRender: ctx = [dst, text, off]; env = [src, nl, resolve]         *)
(***************************************************************************)
\* text.split('\n')
RECURSIVE SplitLF(_, _)
SplitLF(cur, text) ==
    IF text = <<>> THEN <<cur>>
    ELSE IF Head(text) = "LF"
         THEN <<cur>> \o SplitLF(<<>>, Tail(text))
         ELSE SplitLF(Append(cur, Head(text)), Tail(text))

\* it.strip_suffix('\r').unwrap_or(it)
StripCR(line) ==
    IF line # <<>> /\ line[Len(line)] = "CR" THEN SubSeq(line, 1, Len(line) - 1) ELSE line

PushNoCount(ctx, text) == [ctx EXCEPT !.text = ctx.text \o text]

\* SnippetRender::push_str
PushStr(ctx, text) ==
    [ctx EXCEPT !.text = ctx.text \o text, !.off = ctx.off + Len(text)]

RECURSIVE PushLines(_, _, _)
PushLines(ctx, nl, lines) ==
    IF lines = <<>> THEN ctx
    ELSE PushLines(PushStr(PushStr(ctx, nl), StripCR(Head(lines))), nl, Tail(lines))

RenderText(ctx, nl, text) ==
    LET lines == SplitLF(<<>>, text)
    IN  PushLines(PushStr(ctx, StripCR(Head(lines))), nl, Tail(lines))

RECURSIVE RenderElements(_, _, _)
RECURSIVE RenderElement(_, _, _)
RECURSIVE RenderTabstop(_, _, _)

\* ctx.stack holds the tabstops whose render_tabstop call is in progress: a
\* tabstop met again below itself makes the recursion of the source endless
\* (the call stack overflows); ctx.overflow records that and stops the walk.
RenderTabstop(ctx, env, tabstop) ==
    LET start == ctx.off
        kind == env.src.tabstops[tabstop + 1].kind
    IN  IF kind.k = "Placeholder" /\ kind.default # <<>>
        THEN IF tabstop \in ctx.stack
             THEN [ctx EXCEPT !.overflow = TRUE]
             ELSE LET c1 == RenderElements([ctx EXCEPT !.stack = @ \cup {tabstop}],
                                           env, kind.default)
                      t == c1.dst.tabstops[tabstop + 1]
                  IN  IF c1.overflow THEN c1
                      ELSE [c1 EXCEPT !.stack = ctx.stack,
                                      !.dst.tabstops[tabstop + 1] =
                                          RTabstop(Append(t.ranges, Range(start, c1.off)),
                                                   t.parent,
                                                   RKind("Placeholder", <<>>, None))]
        ELSE [ctx EXCEPT !.dst.tabstops[tabstop + 1].ranges =
                  Append(@, Range(start, start))]

RenderElement(ctx, env, element) ==
    CASE element.type = "Tabstop" -> RenderTabstop(ctx, env, element.idx)
      [] element.type = "Variable" ->
           LET val == env.resolve[element.name]
           IN  IF IsSome(val)
               THEN IF IsSome(element.transform)
                    THEN [ctx EXCEPT !.text =
                              ctx.text \o TransformApply(Unwrap(element.transform), Unwrap(val))]
                    ELSE PushStr(ctx, Unwrap(val))
               ELSE IF IsSome(element.default)
                    THEN RenderElements(ctx, env, Unwrap(element.default))
                    ELSE ctx
      [] element.type = "Text" -> RenderText(ctx, env.nl, element.text)

RenderElements(ctx, env, elements) ==
    IF elements = <<>> \/ ctx.overflow THEN ctx
    ELSE RenderElements(RenderElement(ctx, env, Head(elements)), env, Tail(elements))

(***************************************************************************)
(* Snippet::render_at: returns the new RenderedSnippet, the text and the   *)
(* length; overflow when the walk never returns                            *)
(***************************************************************************)
RenderAt(s, dst, nl, resolve, pos) ==
    LET ctx == RenderElements([dst |-> dst, text |-> <<>>, off |-> pos,
                               stack |-> {}, overflow |-> FALSE],
                              [src |-> s, nl |-> nl, resolve |-> resolve],
                              s.elements)
        end == ctx.off
    IN  [snippet |-> [ctx.dst EXCEPT !.ranges = Append(@, Range(pos, end))],
         text |-> ctx.text,
         len |-> end - pos,
         overflow |-> ctx.overflow]

(***************************************************************************)
(* Inputs: templates as the parser delivers them                           *)
(***************************************************************************)
BadTransform == PTransform("(", <<FmtCapture(0)>>, <<>>)
GoodTransform == PTransform("a", <<FmtText(<<"x", "x">>)>>, <<"g">>)
OddTransform == PTransform("a", <<FmtCapture(0), FmtCapture(0)>>, <<"g", "q">>)
EraseTransform == PTransform("a", <<>>, <<"g", "i">>)

RawIdx == 0..MaxRaw

GenLeaves ==
    {PText(<<"a">>), PVariable("V", None, None)}
    \cup {PTabstop(n, None) : n \in RawIdx}
    \cup {PTabstop(n, Some(BadTransform)) : n \in RawIdx}
    \cup {PChoice(n, << <<"c">> >>) : n \in RawIdx}

RECURSIVE GenSeqs(_)
RECURSIVE GenElems(_)
\* the elements of exactly s nodes
GenElems(s) ==
    IF s = 1 THEN GenLeaves
    ELSE {PPlaceholder(n, v) : n \in RawIdx, v \in GenSeqs(s - 1)}
         \cup {PVariable("V", Some(v), None) : v \in GenSeqs(s - 1)}

\* the element sequences of exactly s nodes
GenSeqs(s) ==
    IF s = 0 THEN {<<>>}
    ELSE UNION {{<<e>> \o rest : e \in GenElems(k), rest \in GenSeqs(s - k)} : k \in 1..s}

\* a$1$1b
T_a11b == <<PText(<<"a">>), PTabstop(1, None), PTabstop(1, None), PText(<<"b">>)>>
\* a$1${1:x}b
T_a1xb == <<PText(<<"a">>), PTabstop(1, None), PPlaceholder(1, <<PText(<<"x">>)>>),
            PText(<<"b">>)>>
\* a${1:x}$1b
T_ax1b == <<PText(<<"a">>), PPlaceholder(1, <<PText(<<"x">>)>>), PTabstop(1, None),
            PText(<<"b">>)>>
\* ${1:${2:$1}}
T_nest == <<PPlaceholder(1, <<PPlaceholder(2, <<PTabstop(1, None)>>)>>)>>
\* ${2:a$1}$3
T_par == <<PPlaceholder(2, <<PText(<<"a">>), PTabstop(1, None)>>), PTabstop(3, None)>>
\* ${V/a/xx/g}$1
T_vtr == <<PVariable("V", None, Some(GoodTransform)), PTabstop(1, None)>>
\* ${V:$1}b
T_vdef == <<PVariable("V", Some(<<PTabstop(1, None)>>), None), PText(<<"b">>)>>
\* ${1:$2}$1
T_mirror == <<PPlaceholder(1, <<PTabstop(2, None)>>), PTabstop(1, None)>>
\* ${1/a/xx/g}$1 and ${1/a/$0$0/gq}${2|c,d|}
T_ttr == <<PTabstop(1, Some(GoodTransform)), PTabstop(1, None)>>
T_odd == <<PTabstop(1, Some(OddTransform)), PChoice(2, << <<"c">>, <<"d">> >>)>>
\* a<CR><LF>${1:b<LF>}${V/a//gi}
T_lines == <<PText(<<"a", "CR", "LF">>), PPlaceholder(1, <<PText(<<"b", "LF">>)>>),
             PVariable("V", None, Some(EraseTransform))>>

\* macro_rules! ${1:name} {<LF>    ($3) => {<LF>        $2<LF>    };<LF>}
T_macro ==
    <<PText(<<"m", "a", "c", "r", "o", "_", "r", "u", "l", "e", "s", "!", " ">>),
      PPlaceholder(1, <<PText(<<"n", "a", "m", "e">>)>>),
      PText(<<" ", "{", "LF", " ", " ", " ", " ", "(">>),
      PTabstop(3, None),
      PText(<<")", " ", "=", ">", " ", "{", "LF", " ", " ", " ", " ", " ", " ", " ", " ">>),
      PTabstop(2, None),
      PText(<<"LF", " ", " ", " ", " ", "}", ";", "LF", "}">>)>>

\* the text the test rust_macro expects
MacroText ==
    <<"m", "a", "c", "r", "o", "_", "r", "u", "l", "e", "s", "!", " ", "n", "a", "m", "e",
            " ", "{", "TAB", "LF", " ", " ", " ", " ", "(", ")", " ", "=", ">", " ", "{", "TAB",
            "LF", " ", " ", " ", " ", " ", " ", " ", " ", "TAB", "LF", " ", " ", " ", " ", "}",
            ";", "TAB", "LF", "}">>

\* ${1:$1}
T_self == <<PPlaceholder(1, <<PTabstop(1, None)>>)>>
\* ${0|c|}a
T_choice0 == <<PChoice(0, << <<"c">> >>), PText(<<"a">>)>>
\* ${1:ab}
T_ph == <<PPlaceholder(1, <<PText(<<"a", "b">>)>>)>>

NamedTemplates ==
    {T_a11b, T_a1xb, T_ax1b, T_nest, T_par, T_vtr, T_vdef, T_mirror, T_ttr, T_odd, T_lines,
     T_self, T_choice0, T_ph}

Templates == UNION {GenSeqs(s) : s \in 0..MaxNodes} \cup NamedTemplates

(***************************************************************************)
(* State                                                                   *)
(***************************************************************************)
NoSnippet == [elements |-> <<>>, tabstops |-> <<>>]
NoRendered == [tabstops |-> <<>>, ranges |-> <<>>]
NoActive == [ranges |-> <<>>, active_tabstops |-> {}, active_tabstop |-> 0,
             tabstops |-> <<>>]
NoSelection == [ranges |-> <<>>, primary |-> 0]
NoNav == [ok |-> "none", complete |-> FALSE]
VarNames == {"V"}
NoResolver == [n \in VarNames |-> None]

InitRest ==
    /\ pc = "parsed"
    /\ newline = <<>>
    /\ fixed = NoSnippet
    /\ ensured = NoSnippet
    /\ snippet = NoSnippet
    /\ rendered = NoRendered
    /\ outText = <<>>
    /\ outLen = 0
    /\ points = 0
    /\ off = 0
    /\ lastTo = 0
    /\ superSet = <<>>
    /\ subSet = <<>>
    /\ subsetRes = "none"
    /\ active = NoActive
    /\ selection = NoSelection
    /\ validRes = "none"
    /\ navRes = NoNav
    /\ maps = 0
    /\ dbg = {}
    /\ prior = NoActive
    /\ edit = <<>>
    /\ inserted = NoRendered
    /\ trail = <<>>

\* Snippet::parse after the parser has succeeded: Snippet::new(parsed_snippet)
New ==
    /\ pc = "parsed"
    /\ fixed' = Fixed(template)
    /\ ensured' = Ensured(template)
    /\ snippet' = SnippetNew(template)
    /\ pc' = "elaborated"
    /\ UNCHANGED <<template, rendered, resolver, newline, outText, outLen, points, off,
                   lastTo, superSet, subSet, subsetRes, active, selection, validRes,
                   navRes, docLen, maps, dbg,
                   prior, edit, inserted, trail>>

(***************************************************************************)
(* Elaboration of every generated template                                 *)
(***************************************************************************)
InitElab ==
    /\ template \in Templates
    /\ resolver = NoResolver
    /\ docLen = 0
    /\ InitRest

NextElab == New

SpecElab == InitElab /\ [][NextElab]_vars

(***************************************************************************)
(* Properties of elaboration                                               *)
(***************************************************************************)
\* does the raw template write the tabstop number n anywhere
RECURSIVE WritesRaw(_, _)
WritesRaw(elems, n) ==
    \E j \in 1..Len(elems) :
        \/ elems[j].type \in {"Tabstop", "Placeholder", "Choice"} /\ elems[j].tabstop = n
        \/ elems[j].type = "Placeholder" /\ WritesRaw(elems[j].value, n)
        \/ elems[j].type = "Variable" /\ IsSome(elems[j].default)
           /\ WritesRaw(Unwrap(elems[j].default), n)

\* does the raw template write n as a bare stop ($n)
RECURSIVE WritesBare(_, _)
WritesBare(elems, n) ==
    \E j \in 1..Len(elems) :
        \/ elems[j].type = "Tabstop" /\ elems[j].tabstop = n /\ elems[j].transform = None
        \/ elems[j].type = "Placeholder" /\ WritesBare(elems[j].value, n)
        \/ elems[j].type = "Variable" /\ IsSome(elems[j].default)
           /\ WritesBare(Unwrap(elems[j].default), n)

\* does the raw template write n with a non-empty placeholder, a choice or a transform
RECURSIVE WritesRich(_, _)
WritesRich(elems, n) ==
    \E j \in 1..Len(elems) :
        \/ elems[j].type = "Placeholder" /\ elems[j].tabstop = n /\ elems[j].value # <<>>
        \/ elems[j].type = "Choice" /\ elems[j].tabstop = n
        \/ elems[j].type = "Tabstop" /\ elems[j].tabstop = n /\ IsSome(elems[j].transform)
           /\ RegexCompiles(Unwrap(elems[j].transform).regex)
        \/ elems[j].type = "Placeholder" /\ WritesRich(elems[j].value, n)
        \/ elems[j].type = "Variable" /\ IsSome(elems[j].default)
           /\ WritesRich(Unwrap(elems[j].default), n)

\* every tabstop reference of post is a position of table t whose record has
\* the raw index the same reference has in pre
RECURSIVE RefsResolved(_, _, _)
RefsResolved(pre, post, t) ==
    /\ Len(pre) = Len(post)
    /\ \A j \in 1..Len(post) :
        /\ post[j].type = pre[j].type
        /\ post[j].type = "Tabstop" =>
              /\ post[j].idx \in 0..(Len(t) - 1)
              /\ t[post[j].idx + 1].idx = pre[j].idx
        /\ post[j].type = "Variable" =>
              /\ IsSome(post[j].default) = IsSome(pre[j].default)
              /\ IsSome(post[j].default) =>
                    RefsResolved(Unwrap(pre[j].default), Unwrap(post[j].default), t)

RecordsOf(t, n) == {i \in 1..Len(t) : t[i].idx = n}

C2_KeepsNonEmpty ==
    pc = "elaborated" =>
        /\ \A n \in 0..(MaxRaw + 1) :
              (WritesBare(template, n) /\ WritesRich(template, n)) =>
                  /\ Cardinality(RecordsOf(snippet.tabstops, n)) = 1
                  /\ \A i \in RecordsOf(snippet.tabstops, n) :
                        \/ snippet.tabstops[i].kind.k \in {"Choice", "Transform"}
                        \/ /\ snippet.tabstops[i].kind.k = "Placeholder"
                           /\ snippet.tabstops[i].kind.default # <<>>
        /\ template = T_a1xb =>
              /\ Cardinality(RecordsOf(snippet.tabstops, 1)) = 1
              /\ \A i \in RecordsOf(snippet.tabstops, 1) :
                    snippet.tabstops[i].kind = KindPlaceholder(<<ElemText(<<"x">>)>>)

C3_WitnessWritten ==
    /\ pc = "elaborated"
    /\ template = <<PPlaceholder(1, <<PTabstop(0, None)>>)>>
    /\ Len(snippet.tabstops) = 2
    /\ Len(snippet.elements) = 1

C2_Observed ==
    /\ pc = "elaborated"
    /\ template = T_a1xb
    /\ Len(snippet.tabstops) = 2
    /\ snippet.tabstops[2] = Tabstop(1, None, KindPlaceholder(<<>>))

(***************************************************************************)
(* Snippet::render: the closure is called once per range of the selection, *)
(* in order, with the bounds (from, to) of the replaced range; pos is       *)
(* replacement_start + off.  Returns the RenderedSnippet, the final off and *)
(* the text and length of the last render_at.                              *)
(***************************************************************************)
RECURSIVE RenderFold(_, _, _, _, _, _)
RenderFold(s, acc, sel, nl, resolve, n) ==
    IF n > Len(sel) \/ acc.overflow THEN acc
    ELSE LET replacement_start == sel[n][1]
             replacement_end == sel[n][2]
             r == RenderAt(s, acc.snippet, nl, resolve, replacement_start + acc.off)
         IN  RenderFold(s,
                        [snippet |-> r.snippet,
                         off |-> acc.off + replacement_start - replacement_end + r.len,
                         text |-> r.text, len |-> r.len, overflow |-> r.overflow],
                        sel, nl, resolve, n + 1)

RenderStart(s) ==
    [snippet |-> PrepareRender(s), off |-> 0, text |-> <<>>, len |-> 0,
     overflow |-> FALSE]

RenderFirstOnly(s, sel, nl, resolve) ==
    RenderFold(s, RenderStart(s), SubSeq(sel, 1, 1), nl, resolve, 1)

Render(s, sel, nl, resolve) == RenderFold(s, RenderStart(s), sel, nl, resolve, 1)

(***************************************************************************)
(* Inputs of rendering                                                     *)
(***************************************************************************)
Resolvers == {NoResolver, [n \in VarNames |-> Some(<<"a", "b">>)]}

Newlines == {<<"TAB", "LF">>, <<"LF", " ">>}

\* the (from, to) bounds of the ranges of a selection of the document
Bounds(len) == {b \in (0..len) \X (0..len) : b[1] <= b[2]}

RECURSIVE SelectionsOf(_, _)
\* sorted, non-overlapping, pairwise different ranges: n of them
SelectionsOf(len, n) ==
    IF n = 0 THEN {<<>>}
    ELSE {sel \in {Append(s, b) : s \in SelectionsOf(len, n - 1), b \in Bounds(len)} :
             Len(sel) = 1 \/ (/\ sel[Len(sel) - 1][2] <= sel[Len(sel)][1]
                              /\ sel[Len(sel) - 1][1] < sel[Len(sel)][1])}

Selections(len) == UNION {SelectionsOf(len, n) : n \in 1..MaxPoints}

RenderTemplates ==
    UNION {GenSeqs(s) : s \in 0..MaxRenderNodes} \cup NamedTemplates \cup {T_macro}

(***************************************************************************)
(* Rendering steps of the host                                             *)
(***************************************************************************)
\* snippet.prepare_render()
PrepareRenderStep ==
    /\ pc = "elaborated"
    /\ rendered' = PrepareRender(snippet)
    /\ pc' = "prepared"
    /\ UNCHANGED <<template, fixed, ensured, snippet, resolver, newline, outText, outLen,
                   points, off, lastTo, superSet, subSet, subsetRes, active, selection,
                   validRes, navRes, docLen, maps, dbg,
                   prior, edit, inserted, trail>>

\* snippet.render_at(&mut rendered_snippet, nl, resolve_var, pos)
RenderAtStep ==
    /\ pc = "prepared"
    /\ \E nl \in Newlines, pos \in 0..MaxPos :
          LET r == RenderAt(snippet, rendered, nl, resolver, pos)
          IN  /\ rendered' = r.snippet
              /\ outText' = r.text
              /\ outLen' = r.len
              /\ newline' = nl
              /\ pc' = IF r.overflow THEN "overflow" ELSE "rendered_at"
    /\ points' = 1
    /\ UNCHANGED <<template, fixed, ensured, snippet, resolver, off, lastTo, superSet,
                   subSet, subsetRes, active, selection, validRes, navRes, docLen, maps, dbg,
                   prior, edit, inserted, trail>>

\* snippet.render(doc, selection, change_range, ctx)
RenderStep ==
    /\ pc = "elaborated"
    /\ \E nl \in Newlines, sel \in Selections(docLen) :
          LET r == Render(snippet, sel, nl, resolver)
          IN  /\ rendered' = r.snippet
              /\ outText' = r.text
              /\ outLen' = r.len
              /\ off' = r.off
              /\ docLen' = docLen + r.off
              /\ lastTo' = sel[Len(sel)][2]
              /\ points' = Len(sel)
              /\ pc' = IF r.overflow THEN "overflow" ELSE "rendered"
    /\ UNCHANGED <<template, fixed, ensured, snippet, resolver, newline, superSet, subSet,
                   subsetRes, active, selection, validRes, navRes, maps, dbg,
                   prior, edit, inserted, trail>>

InitRender ==
    /\ template \in RenderTemplates
    /\ resolver \in Resolvers
    /\ docLen = DocLen
    /\ InitRest

NextRender == New \/ PrepareRenderStep \/ RenderAtStep \/ RenderStep

SpecRender == InitRender /\ [][NextRender]_vars

(***************************************************************************)
(* Properties of rendering                                                 *)
(***************************************************************************)
\* the rendered record of the tabstop written with raw index n
RenderedOfRaw(n) ==
    rendered.tabstops[CHOOSE i \in 1..Len(snippet.tabstops) : snippet.tabstops[i].idx = n]

RenderedOnce == pc \in {"rendered_at", "rendered"} /\ points = 1

\* C4: a raw number written several times is one logical tabstop: a$1$1b has
\* a single tabstop for raw index 1, and rendering it at one insertion point
\* records exactly two ranges for it, one per occurrence, in text order.
C4_RepeatedStop ==
    /\ pc # "parsed" =>
          \A n \in 0..(MaxRaw + 1) :
              WritesRaw(template, n) => Cardinality(RecordsOf(snippet.tabstops, n)) = 1
    /\ (RenderedOnce /\ template = T_a11b) =>
          LET pos == rendered.ranges[1].start
          IN  /\ Len(rendered.tabstops) = 2
              /\ RenderedOfRaw(1).ranges = <<Range(pos + 1, pos + 1), Range(pos + 1, pos + 1)>>

C4_Witness ==
    /\ RenderedOnce
    /\ template = T_a11b
    /\ rendered.ranges = <<Range(1, 3)>>
    /\ rendered.tabstops[2].ranges = <<Range(2, 2), Range(2, 2)>>

\* the macro_rules template rendered as the test does: render_at with the
\* prefix tab+line feed, no variable resolved, offset 0
MacroRendered ==
    /\ pc = "rendered_at"
    /\ template = T_macro
    /\ newline = <<"TAB", "LF">>
    /\ resolver = NoResolver
    /\ rendered.ranges[1].start = 0

C6_RustMacroTest ==
    MacroRendered =>
        /\ outText = MacroText
        /\ rendered.tabstops =
              <<RTabstop(<<Range(13, 17)>>, None, RKind("Placeholder", <<>>, None)),
                RTabstop(<<Range(42, 42)>>, None, RKind("Empty", <<>>, None)),
                RTabstop(<<Range(26, 26)>>, None, RKind("Empty", <<>>, None)),
                RTabstop(<<Range(53, 53)>>, None, RKind("Empty", <<>>, None))>>
        /\ rendered.ranges[Len(rendered.ranges)].end = Len(outText)
        /\ rendered.ranges[Len(rendered.ranges)].start = 0

\* what the code does for the template of rust_macro: the table is ordered by
\* raw index with the record of $0 first (LAST_TABSTOP_IDX is 0), so the
\* range [53,53) of $0 is at position 0 and not at the last position
C6_Observed ==
    /\ MacroRendered
    /\ outText = MacroText
    /\ rendered.tabstops =
          <<RTabstop(<<Range(53, 53)>>, None, RKind("Empty", <<>>, None)),
            RTabstop(<<Range(13, 17)>>, None, RKind("Placeholder", <<>>, None)),
            RTabstop(<<Range(42, 42)>>, None, RKind("Empty", <<>>, None)),
            RTabstop(<<Range(26, 26)>>, None, RKind("Empty", <<>>, None))>>

\* is the default the single literal text d without line feed
PlainDefault(kd) ==
    /\ kd.k = "Placeholder"
    /\ Len(kd.default) = 1
    /\ kd.default[1].type = "Text"
    /\ \A j \in 1..Len(kd.default[1].text) : kd.default[1].text[j] \notin {"LF", "CR"}

\* C7: render_at returns a length equal to the number of characters of the
\* returned text, appends the top-level range [pos, pos+length], and every
\* range recorded by the call is the interval its occurrence occupies in the
\* returned text, shifted by pos (also with a transformed resolved variable).
C7_RenderAtLength ==
    pc = "rendered_at" =>
        LET top == rendered.ranges[Len(rendered.ranges)]
            pos == top.start
        IN  /\ outLen = Len(outText)
            /\ top.end = pos + outLen
            /\ \A i \in 1..Len(rendered.tabstops) :
                  \A j \in 1..Len(rendered.tabstops[i].ranges) :
                      LET r == rendered.tabstops[i].ranges[j]
                      IN  /\ pos <= r.start /\ r.start <= r.end
                          /\ r.end <= pos + Len(outText)
                          /\ rendered.tabstops[i].kind.k # "Placeholder" => r.start = r.end
                          /\ PlainDefault(snippet.tabstops[i].kind) =>
                                SubSeq(outText, r.start - pos + 1, r.end - pos)
                                    = snippet.tabstops[i].kind.default[1].text

\* what the code does with ${V/a/xx/g}$1 and V = ab at offset 0: the text is
\* xxb, the returned length is 0 and $1 is recorded at [0,0)
C7_Observed ==
    /\ pc = "rendered_at"
    /\ template = T_vtr
    /\ rendered.ranges = <<Range(0, 0)>>
    /\ outText = <<"x", "x", "b">>
    /\ outLen = 0
    /\ rendered.tabstops[2].ranges = <<Range(0, 0)>>

\* number of occurrences of the raw tabstop number n in the template
RECURSIVE RefCount(_, _)
RefCount(elems, n) ==
    IF elems = <<>> THEN 0
    ELSE LET e == Head(elems)
         IN  (IF e.type \in {"Tabstop", "Placeholder", "Choice"} /\ e.tabstop = n
              THEN 1 ELSE 0)
             + (IF e.type = "Placeholder" THEN RefCount(e.value, n) ELSE 0)
             + (IF e.type = "Variable" /\ IsSome(e.default)
                THEN RefCount(Unwrap(e.default), n) ELSE 0)
             + RefCount(Tail(elems), n)

\* number of times one pass over elems reaches the tabstop of resolved index
\* t: a reference is reached where it stands, a placeholder default is walked
\* at every reference to its tabstop, a variable default only when the
\* variable is not resolved
RECURSIVE Reached(_, _, _)
Reached(elems, t, depth) ==
    IF elems = <<>> \/ depth = 0 THEN 0
    ELSE LET e == Head(elems)
             kd == snippet.tabstops[e.idx + 1].kind
         IN  (CASE e.type = "Tabstop" ->
                     (IF e.idx = t THEN 1 ELSE 0)
                     + (IF kd.k = "Placeholder" THEN Reached(kd.default, t, depth - 1) ELSE 0)
                [] e.type = "Variable" ->
                     IF ~IsSome(resolver[e.name]) /\ IsSome(e.default)
                     THEN Reached(Unwrap(e.default), t, depth) ELSE 0
                [] e.type = "Text" -> 0)
             + Reached(Tail(elems), t, depth)

InGroup(r, top) == top.start <= r.start /\ r.start <= r.end /\ r.end <= top.end

\* C8 as stated: with k insertion points every range list has a length that
\* is a multiple of k; with two insertion points every tabstop the template
\* references once has a range list of length 2, one range per insertion
\* point in insertion order.
C8_AsStated ==
    pc = "rendered" =>
        /\ \A i \in 1..Len(rendered.tabstops) :
              Len(rendered.tabstops[i].ranges) % points = 0
        /\ points = 2 =>
              \A i \in 1..Len(rendered.tabstops) :
                  RefCount(template, snippet.tabstops[i].idx) = 1 =>
                      /\ Len(rendered.tabstops[i].ranges) = 2
                      /\ InGroup(rendered.tabstops[i].ranges[1], rendered.ranges[1])
                      /\ InGroup(rendered.tabstops[i].ranges[2], rendered.ranges[2])

\* C8 amended: with k insertion points every tabstop has k times as many
\* ranges as one pass reaches it (a multiple of k), the ranges of the j-th
\* insertion point forming the j-th group inside the j-th top-level range; so
\* with two insertion points a tabstop that one pass reaches exactly once has
\* a range list of length 2, one range per insertion point in insertion order.
C8_RangesPerPoint ==
    pc = "rendered" =>
        /\ Len(rendered.ranges) = points
        /\ \A i \in 1..Len(rendered.tabstops) :
              LET rs == rendered.tabstops[i].ranges
                  c == Reached(snippet.elements, i - 1, Len(snippet.tabstops) + 1)
              IN  /\ Len(rs) % points = 0
                  /\ Len(rs) = points * c
                  /\ \A j \in 1..Len(rs) : InGroup(rs[j], rendered.ranges[((j - 1) \div c) + 1])

\* two insertion points, ${1:$2}$1: the tabstop written once as $2 is reached
\* twice per pass and has four ranges
C8_Witness ==
    /\ pc = "rendered"
    /\ points = 2
    /\ template = T_mirror
    /\ Len(rendered.tabstops[3].ranges) = 4
    /\ Len(rendered.tabstops[1].ranges) = 2

(***************************************************************************)
(* helix-stdx is_subset: i and j are the positions of super_range and      *)
(* sub_range in their iterators (past the end: None)                       *)
(***************************************************************************)
RECURSIVE IsSubsetLoop(_, _, _, _)
IsSubsetLoop(super_set, sub_set, i, j) ==
    IF j > Len(sub_set) THEN TRUE
    ELSE IF i > Len(super_set) THEN FALSE
    ELSE LET ra == super_set[i]
             rb == sub_set[j]
         IN  IF ra.end <= rb.start /\ ra.start < rb.start
             THEN IsSubsetLoop(super_set, sub_set, i + 1, j)
             ELSE IF RangeContains(ra, rb)
                  THEN IsSubsetLoop(super_set, sub_set, i, j + 1)
                  ELSE FALSE

IsSubset(super_set, sub_set) == IsSubsetLoop(super_set, sub_set, 1, 1)

\* sub_set.all(|rb| super_set.any(|ra| ra.contains(rb)))
NaiveSubset(super_set, sub_set) ==
    \A j \in 1..Len(sub_set) : \E i \in 1..Len(super_set) :
        RangeContains(super_set[i], sub_set[j])

RangeWellFormed(r) == r.start <= r.end

RangesUpTo(m) == {r \in {Range(a, b) : a \in 0..m, b \in 0..m} : RangeWellFormed(r)}

\* sorted, pairwise non-overlapping (adjacent and empty ranges allowed)
SortedDisjoint(rs) ==
    \A i \in 1..(Len(rs) - 1) : rs[i].start <= rs[i + 1].start /\ rs[i].end <= rs[i + 1].start

RECURSIVE RangeSeqsOf(_, _)
RangeSeqsOf(m, n) ==
    IF n = 0 THEN {<<>>}
    ELSE {rs \in {Append(q, r) : q \in RangeSeqsOf(m, n - 1), r \in RangesUpTo(m)} :
             SortedDisjoint(rs)}

RangeSeqs(m, n) == UNION {RangeSeqsOf(m, k) : k \in 0..n}

IsSubsetStep ==
    /\ pc = "subset"
    /\ subsetRes' = IF IsSubset(superSet, subSet) THEN "true" ELSE "false"
    /\ pc' = "subset_done"
    /\ UNCHANGED <<template, fixed, ensured, snippet, rendered, resolver, newline, outText,
                   outLen, points, off, lastTo, superSet, subSet, active, selection,
                   validRes, navRes, docLen, maps, dbg,
                   prior, edit, inserted, trail>>

InitSubset ==
    /\ superSet \in RangeSeqs(MaxCoord, MaxRanges)
    /\ subSet \in RangeSeqs(MaxCoord, MaxRanges)
    /\ pc = "subset"
    /\ template = <<>>
    /\ resolver = NoResolver
    /\ newline = <<>>
    /\ fixed = NoSnippet
    /\ ensured = NoSnippet
    /\ snippet = NoSnippet
    /\ rendered = NoRendered
    /\ outText = <<>>
    /\ outLen = 0
    /\ points = 0
    /\ off = 0
    /\ lastTo = 0
    /\ subsetRes = "none"
    /\ active = NoActive
    /\ selection = NoSelection
    /\ validRes = "none"
    /\ navRes = NoNav
    /\ docLen = 0
    /\ maps = 0
    /\ dbg = {}
    /\ prior = NoActive
    /\ edit = <<>>
    /\ inserted = NoRendered
    /\ trail = <<>>

NextSubset == IsSubsetStep

SpecSubset == InitSubset /\ [][NextSubset]_vars

\* C9: for two sequences of ranges, each sorted and pairwise non-overlapping
\* (adjacent and empty ranges allowed), is_subset(super, sub) is exactly the
\* naive check that every range of sub is contained in some range of super;
\* is_subset([(0,10)],[(2,5)]) is true, is_subset([(0,5),(7,10)],[(4,8)]) false.
C9_EqualsNaive ==
    /\ pc = "subset_done" =>
          subsetRes = (IF NaiveSubset(superSet, subSet) THEN "true" ELSE "false")
    /\ IsSubset(<<Range(0, 10)>>, <<Range(2, 5)>>)
    /\ ~IsSubset(<<Range(0, 5), Range(7, 10)>>, <<Range(4, 8)>>)

\* what the code does with super = [(0,2)], sub = [(2,2)]: the super range is
\* skipped although it contains the empty sub range, and the result is false
C9_Observed ==
    /\ pc = "subset_done"
    /\ superSet = <<Range(0, 2)>>
    /\ subSet = <<Range(2, 2)>>
    /\ subsetRes = "false"
    /\ NaiveSubset(superSet, subSet)

\* on ranges none of which is empty, is_subset is the naive check
C9_NonEmptyRanges ==
    (/\ pc = "subset_done"
     /\ \A i \in 1..Len(superSet) : ~RangeIsEmpty(superSet[i])
     /\ \A j \in 1..Len(subSet) : ~RangeIsEmpty(subSet[j])) =>
        subsetRes = (IF NaiveSubset(superSet, subSet) THEN "true" ELSE "false")

(***************************************************************************)
(* Selection (host type): ranges with anchor and head, one of them primary *)
(***************************************************************************)
SelRange(a, h) == [anchor |-> a, head |-> h]

\* selection::Range::flip
Flip(r) == SelRange(r.head, r.anchor)

\* Selection::new(ranges, primary_index)
SelectionNew(rs, primary) == [ranges |-> rs, primary |-> primary]

\* Selection::range_bounds: the (from, to) bounds of every range
RangeBoundsOf(sel) ==
    [i \in 1..Len(sel.ranges) |->
        Range(Min(sel.ranges[i].anchor, sel.ranges[i].head),
              Max(sel.ranges[i].anchor, sel.ranges[i].head))]

(***************************************************************************)
(* ChangeSet (host type): a sequence of Retain(n), Delete(n), Insert(n)    *)
(* over the whole document; update_positions maps every position with its  *)
(* association: at an insertion exactly at the position, Before stays in    *)
(* front of the inserted text and After moves behind it.                   *)
(***************************************************************************)
Op(o, n) == [op |-> o, n |-> n]

InsertOffset(assoc, ins) == IF assoc = "After" THEN ins ELSE 0

RECURSIVE MapPosFrom(_, _, _, _, _, _)
MapPosFrom(changes, n, old_pos, new_pos, pos, assoc) ==
    IF n > Len(changes) THEN new_pos
    ELSE LET change == changes[n]
         IN  CASE change.op = "Retain" ->
                    IF old_pos + change.n > pos
                    THEN new_pos + (pos - old_pos)
                    ELSE MapPosFrom(changes, n + 1, old_pos + change.n,
                                    new_pos + change.n, pos, assoc)
               [] change.op = "Delete" ->
                    IF old_pos + change.n > pos
                    THEN new_pos
                    ELSE MapPosFrom(changes, n + 1, old_pos + change.n, new_pos, pos, assoc)
               [] change.op = "Insert" ->
                    IF n < Len(changes) /\ changes[n + 1].op = "Delete"
                    THEN LET len == changes[n + 1].n
                         IN  IF old_pos + len > pos
                             THEN IF pos = old_pos THEN new_pos
                                  ELSE IF len = change.n THEN new_pos + (pos - old_pos)
                                  ELSE new_pos + InsertOffset(assoc, change.n)
                             ELSE MapPosFrom(changes, n + 2, old_pos + len,
                                             new_pos + change.n, pos, assoc)
                    ELSE IF old_pos = pos
                         THEN new_pos + InsertOffset(assoc, change.n)
                         ELSE MapPosFrom(changes, n + 1, old_pos, new_pos + change.n,
                                         pos, assoc)

\* ChangeSet::update_positions, for one position
MapPos(changes, pos, assoc) == MapPosFrom(changes, 1, 0, 0, pos, assoc)

RECURSIVE LenAfter(_)
\* length of the document after the change
LenAfter(changes) ==
    IF changes = <<>> THEN 0
    ELSE (IF Head(changes).op \in {"Retain", "Insert"} THEN Head(changes).n ELSE 0)
         + LenAfter(Tail(changes))

\* the operations of one change (from, to, inserted characters) of a
\* document of length len, as Transaction::change builds them
ChangeOf(len, from, to, ins) ==
    (IF from > 0 THEN <<Op("Retain", from)>> ELSE <<>>)
    \o (IF ins > 0 THEN <<Op("Insert", ins)>> ELSE <<>>)
    \o (IF to > from THEN <<Op("Delete", to - from)>> ELSE <<>>)
    \o (IF len > to THEN <<Op("Retain", len - to)>> ELSE <<>>)

Changes(len) ==
    {ChangeOf(len, b[1], b[2], ins) :
        b \in {x \in Bounds(len) : x[2] - x[1] <= MaxDelete}, ins \in 0..MaxInsert}
    \ {ChangeOf(len, 0, 0, 0)}

(***************************************************************************)
(* ActiveSnippet::activate_tabstop.  The ancestor walk follows parent      *)
(* links until None; on a cycle of parent links it never ends (hang).      *)
(***************************************************************************)
RECURSIVE WalkParents(_, _, _, _)
WalkParents(tabstops, parent, set, fuel) ==
    IF parent = None THEN [hang |-> FALSE, set |-> set]
    ELSE IF fuel = 0 THEN [hang |-> TRUE, set |-> set]
    ELSE WalkParents(tabstops, tabstops[Unwrap(parent) + 1].parent,
                     set \cup {Unwrap(parent)}, fuel - 1)

AllRangesEmpty(t) == \A j \in 1..Len(t.ranges) : RangeIsEmpty(t.ranges[j])

TabstopSelection(t, direction, primary_idx, snippet_ranges) ==
    SelectionNew([j \in 1..Len(t.ranges) |->
                     IF direction = "Backward"
                     THEN Flip(SelRange(t.ranges[j].start, t.ranges[j].end))
                     ELSE SelRange(t.ranges[j].start, t.ranges[j].end)],
                 primary_idx * (Len(t.ranges) \div snippet_ranges))

OnlyTarget(a, primary_idx, direction) ==
    LET tabstop == a.tabstops[a.active_tabstop + 1]
    IN  IF HasPlaceholder(tabstop) /\ AllRangesEmpty(tabstop)
        THEN [ok |-> "none", active |-> a, selection |-> NoSelection]
        ELSE [ok |-> "some",
              active |-> [a EXCEPT !.active_tabstops = {a.active_tabstop}],
              selection |-> TabstopSelection(tabstop, direction, primary_idx, Len(a.ranges))]

ActivateTabstop(a, primary_idx, direction) ==
    LET tabstop == a.tabstops[a.active_tabstop + 1]
    IN  IF HasPlaceholder(tabstop) /\ AllRangesEmpty(tabstop)
        THEN [ok |-> "none", active |-> a, selection |-> NoSelection]
        ELSE LET w == WalkParents(a.tabstops, tabstop.parent, {a.active_tabstop},
                                  Len(a.tabstops) + 1)
             IN  IF w.hang
                 THEN [ok |-> "hang", active |-> a, selection |-> NoSelection]
                 ELSE [ok |-> "some",
                       active |-> [a EXCEPT !.active_tabstops = w.set],
                       selection |-> TabstopSelection(tabstop, direction, primary_idx,
                                                      Len(a.ranges))]

(***************************************************************************)
(* ActiveSnippet::new                                                      *)
(***************************************************************************)
ActiveSnippetNew(primary_idx, direction, r) ==
    ActivateTabstop([ranges |-> r.ranges, active_tabstops |-> {}, active_tabstop |-> 0,
                     tabstops |-> r.tabstops],
                    primary_idx, direction)

(***************************************************************************)
(* ActiveSnippet::is_valid                                                 *)
(***************************************************************************)
IsValid(a, new_selection) ==
    IsSubset(a.tabstops[a.active_tabstop + 1].ranges, RangeBoundsOf(new_selection))

(***************************************************************************)
(* ActiveSnippet::primary_idx: position of the first insertion range that  *)
(* contains the primary range; Missing when the expect panics              *)
(***************************************************************************)
PrimaryIdx(a, primary) ==
    IF \E i \in 1..Len(a.ranges) : RangeContains(a.ranges[i], primary)
    THEN (CHOOSE i \in 1..Len(a.ranges) :
             /\ RangeContains(a.ranges[i], primary)
             /\ \A k \in 1..(i - 1) : ~RangeContains(a.ranges[k], primary)) - 1
    ELSE Missing

(***************************************************************************)
(* ActiveSnippet::next_tabstop and prev_tabstop                            *)
(***************************************************************************)
RECURSIVE NextLoop(_, _)
NextLoop(a, primary_idx) ==
    IF a.active_tabstop + 1 < Len(a.tabstops)
    THEN LET a1 == [a EXCEPT !.active_tabstop = @ + 1]
             r == ActivateTabstop(a1, primary_idx, "Forward")
         IN  IF r.ok = "none" THEN NextLoop(a1, primary_idx)
             ELSE [ok |-> r.ok, active |-> r.active, selection |-> r.selection,
                   complete |-> r.active.active_tabstop + 1 = Len(a.tabstops)]
    ELSE [ok |-> "none", active |-> a, selection |-> NoSelection, complete |-> FALSE]

NextNoSkip(a, primary_idx) ==
    IF a.active_tabstop + 1 < Len(a.tabstops)
    THEN LET a1 == [a EXCEPT !.active_tabstop = @ + 1]
             r == ActivateTabstop(a1, primary_idx, "Forward")
         IN  IF r.ok = "none"
             THEN [ok |-> "none", active |-> a1, selection |-> NoSelection, complete |-> FALSE]
             ELSE [ok |-> r.ok, active |-> r.active, selection |-> r.selection,
                   complete |-> r.active.active_tabstop + 1 = Len(a.tabstops)]
    ELSE [ok |-> "none", active |-> a, selection |-> NoSelection, complete |-> FALSE]

NextTabstop(a, primary_idx) == NextLoop(a, primary_idx)

RECURSIVE PrevLoop(_, _)
PrevLoop(a, primary_idx) ==
    IF a.active_tabstop # 0
    THEN LET a1 == [a EXCEPT !.active_tabstop = @ - 1]
             r == ActivateTabstop(a1, primary_idx, "Backward")
         IN  IF r.ok = "none" THEN PrevLoop(a1, primary_idx)
             ELSE [ok |-> r.ok, active |-> r.active, selection |-> r.selection,
                   complete |-> FALSE]
    ELSE [ok |-> "none", active |-> a, selection |-> NoSelection, complete |-> FALSE]

RECURSIVE PrevNoFlip(_, _)
PrevNoFlip(a, primary_idx) ==
    IF a.active_tabstop # 0
    THEN LET a1 == [a EXCEPT !.active_tabstop = @ - 1]
             r == ActivateTabstop(a1, primary_idx, "Forward")
         IN  IF r.ok = "none" THEN PrevNoFlip(a1, primary_idx)
             ELSE [ok |-> r.ok, active |-> r.active, selection |-> r.selection,
                   complete |-> FALSE]
    ELSE [ok |-> "none", active |-> a, selection |-> NoSelection, complete |-> FALSE]

PrevTabstop(a, primary_idx) == PrevLoop(a, primary_idx)

(***************************************************************************)
(* ActiveSnippet::map                                                      *)
(***************************************************************************)
MapInsertionRanges(ranges, changes) ==
    [i \in 1..Len(ranges) |->
        Range(MapPos(changes, ranges[i].start, "After"),
              MapPos(changes, ranges[i].end, "Before"))]

MapTabstopRanges(rs, isActive, changes) ==
    [j \in 1..Len(rs) |->
        LET range == rs[j]
            empty == range.start = range.end
        IN  IF isActive
            THEN Range(MapPos(changes, range.start, "Before"),
                       MapPos(changes, range.end, IF empty THEN "Before" ELSE "After"))
            ELSE Range(MapPos(changes, range.start, "After"),
                       MapPos(changes, range.end, IF empty THEN "After" ELSE "Before"))]

\* tabstop.ranges.retain_mut(..): j is the range at hand, k the position of
\* snippet_range in self.ranges; out are the ranges retained so far; panic
\* when snippet_ranges.next().unwrap() meets None
RECURSIVE RetainLoop(_, _, _, _, _, _, _, _, _)
RetainLoop(rs, snippet_ranges, num_ranges, j, k, tabstop_i, prev, out, failed) ==
    IF j > Len(rs) THEN [ranges |-> out, dbg |-> failed, panic |-> FALSE]
    ELSE LET advance == tabstop_i = num_ranges
             k1 == IF advance THEN k + 1 ELSE k
             i1 == (IF advance THEN 0 ELSE tabstop_i) + 1
         IN  IF k1 > Len(snippet_ranges)
             THEN [ranges |-> out, dbg |-> failed, panic |-> TRUE]
             ELSE LET snippet_range == snippet_ranges[k1]
                      retain == snippet_range.start <= snippet_range.end
                      start1 == Max(rs[j].start, snippet_range.start)
                      end1 == Min(Max(rs[j].end, start1), snippet_range.end)
                      failed1 == failed
                                 \cup (IF prev.start <= start1 THEN {} ELSE {"prev.start <= range.start"})
                                 \cup (IF start1 <= end1 THEN {} ELSE {"range.start <= range.end"})
                      start2 == IF prev.end > start1 THEN prev.end ELSE start1
                      end2 == IF prev.end > start1 THEN Max(end1, start2) ELSE end1
                  IN  IF retain
                      THEN RetainLoop(rs, snippet_ranges, num_ranges, j + 1, k1, i1,
                                      Range(start2, end2), Append(out, Range(start2, end2)),
                                      failed1)
                      ELSE RetainLoop(rs, snippet_ranges, num_ranges, j + 1, k1, i1,
                                      prev, out, failed)

MapTabstop(a, ranges, i, changes) ==
    LET mapped == MapTabstopRanges(a.tabstops[i].ranges, (i - 1) \in a.active_tabstops, changes)
    IN  RetainLoop(mapped, ranges, Len(mapped) \div Len(ranges), 1, 1, 0, Range(0, 0),
                   <<>>, {})

Map(a, changes) ==
    LET ranges == MapInsertionRanges(a.ranges, changes)
        res == [i \in 1..Len(a.tabstops) |-> MapTabstop(a, ranges, i, changes)]
    IN  [active |-> [a EXCEPT !.ranges = ranges,
                              !.tabstops = [i \in 1..Len(a.tabstops) |->
                                               [a.tabstops[i] EXCEPT !.ranges = res[i].ranges]]],
         dbg |-> UNION {res[i].dbg \cup (IF res[i].panic
                                         THEN {"snippet_ranges.next().unwrap()"} ELSE {})
                        : i \in 1..Len(a.tabstops)},
         panic |-> \E i \in 1..Len(a.tabstops) : res[i].panic]

(***************************************************************************)
(* ActiveSnippet::insert_snippet: the records of the inserted snippet take *)
(* the place of the active tabstop's record (splice over T..=T); a record  *)
(* with a parent inside the snippet has the link shifted by T, a record    *)
(* without one is given the active tabstop's parent                        *)
(***************************************************************************)
Reparent(tabstops, parent, shift) ==
    [k \in DOMAIN tabstops |->
        [tabstops[k] EXCEPT !.parent = IF IsSome(@) THEN Some(Unwrap(@) + shift)
                                       ELSE parent]]

SpliceKeeping(a, s) ==
    LET T == a.active_tabstop
        parent == a.tabstops[T + 1].parent
    IN  [a EXCEPT !.tabstops = SubSeq(@, 1, T + 1)
                               \o Reparent(s.tabstops, parent, T)
                               \o SubSeq(@, T + 2, Len(@))]

InsertSnippet(a, s) ==
    LET T == a.active_tabstop
        parent == a.tabstops[T + 1].parent
    IN  [a EXCEPT !.tabstops = SubSeq(@, 1, T)
                               \o Reparent(s.tabstops, parent, T)
                               \o SubSeq(@, T + 2, Len(@))]

(***************************************************************************)
(* Inputs of the session                                                   *)
(***************************************************************************)
SessionTemplates ==
    {T_a11b, T_a1xb, T_ax1b, T_nest, T_par, T_vdef, T_mirror, T_odd, T_self, T_choice0, T_ph}

Directions == {"Forward", "Backward"}

CollapseToEnd(sel) ==
    [sel EXCEPT !.ranges = [i \in 1..Len(sel.ranges) |->
        SelRange(Max(sel.ranges[i].anchor, sel.ranges[i].head),
                 Max(sel.ranges[i].anchor, sel.ranges[i].head))]]

\* the primary range of the host's current selection, up to the index
\* primary_idx finds for it: each insertion range itself (it lies in itself
\* and in an earlier range only if every range inside it does), and the whole
\* document
PrimaryRanges(a, len) == {a.ranges[i] : i \in 1..Len(a.ranges)} \cup {Range(0, len)}

\* the selections the host asks is_valid about: one range of small width
\* anywhere in the document, the selection of the last activation, and the
\* cursors left at the end of that selection's ranges
QuerySelections(len) ==
    {SelectionNew(<<SelRange(r.start, r.end)>>, 0) :
        r \in {x \in RangesUpTo(len) : x.end - x.start <= MaxWidth}}
    \cup {sel \in {selection, CollapseToEnd(selection)} : sel.ranges # <<>>}

(***************************************************************************)
(* Steps of the host during a session                                      *)
(***************************************************************************)
\* ActiveSnippet::new(primary_idx, direction, snippet)
ActiveNewStep ==
    /\ pc = "rendered"
    /\ \E primary_idx \in 0..(points - 1), direction \in Directions :
          LET r == ActiveSnippetNew(primary_idx, direction, rendered)
          IN  /\ active' = r.active
              /\ selection' = r.selection
              /\ pc' = CASE r.ok = "none" -> "panic"
                         [] r.ok = "hang" -> "hang"
                         [] r.ok = "some" /\ Len(r.active.tabstops) = 1 -> "nosession"
                         [] OTHER -> "active"
    /\ UNCHANGED <<template, fixed, ensured, snippet, rendered, resolver, newline, outText,
                   outLen, points, off, lastTo, superSet, subSet, subsetRes, validRes,
                   navRes, docLen, maps, dbg,
                   prior, edit, inserted, trail>>

\* active.next_tabstop(current_selection)
NextTabstopStep ==
    /\ pc = "active"
    /\ \E primary \in PrimaryRanges(active, docLen) :
          LET primary_idx == PrimaryIdx(active, primary)
              r == NextTabstop(active, primary_idx)
          IN  IF primary_idx = Missing
              THEN pc' = "panic" /\ UNCHANGED <<active, selection, navRes>>
              ELSE /\ active' = r.active
                   /\ selection' = IF r.ok = "some" THEN r.selection ELSE selection
                   /\ navRes' = [ok |-> r.ok, complete |-> r.complete]
                   /\ pc' = IF r.ok = "hang" THEN "hang" ELSE "active"
    /\ UNCHANGED <<template, fixed, ensured, snippet, rendered, resolver, newline, outText,
                   outLen, points, off, lastTo, superSet, subSet, subsetRes, validRes,
                   docLen, maps, dbg,
                   prior, edit, inserted, trail>>

\* active.prev_tabstop(current_selection)
PrevTabstopStep ==
    /\ pc = "active"
    /\ \E primary \in PrimaryRanges(active, docLen) :
          LET primary_idx == PrimaryIdx(active, primary)
              r == PrevTabstop(active, primary_idx)
          IN  IF primary_idx = Missing
              THEN pc' = "panic" /\ UNCHANGED <<active, selection, navRes>>
              ELSE /\ active' = r.active
                   /\ selection' = IF r.ok = "some" THEN r.selection ELSE selection
                   /\ navRes' = [ok |-> r.ok, complete |-> FALSE]
                   /\ pc' = IF r.ok = "hang" THEN "hang" ELSE "active"
    /\ UNCHANGED <<template, fixed, ensured, snippet, rendered, resolver, newline, outText,
                   outLen, points, off, lastTo, superSet, subSet, subsetRes, validRes,
                   docLen, maps, dbg,
                   prior, edit, inserted, trail>>

\* active.map(changes), after the host has applied the changes to the document
MapStep ==
    /\ pc = "active"
    /\ maps < MaxMaps
    /\ \E changes \in Changes(docLen) :
          LET r == Map(active, changes)
          IN  /\ active' = r.active
              /\ dbg' = r.dbg
              /\ prior' = active
              /\ edit' = changes
              /\ docLen' = LenAfter(changes)
              /\ pc' = IF r.panic THEN "panic" ELSE "active"
    /\ maps' = maps + 1
    /\ UNCHANGED <<template, fixed, ensured, snippet, rendered, resolver, newline, outText,
                   outLen, points, off, lastTo, superSet, subSet, subsetRes, selection,
                   validRes, navRes,
                   inserted, trail>>

\* active.is_valid(new_selection): a query, the session is left as it is; the
\* host's next call is not followed from here, it is followed from the state
\* before the query
IsValidStep ==
    /\ pc = "active"
    /\ \E sel \in QuerySelections(docLen) :
          /\ selection' = sel
          /\ validRes' = IF IsValid(active, sel) THEN "true" ELSE "false"
    /\ pc' = "validated"
    /\ UNCHANGED <<template, fixed, ensured, snippet, rendered, resolver, newline, outText,
                   outLen, points, off, lastTo, superSet, subSet, subsetRes, active,
                   navRes, docLen, maps, dbg,
                   prior, edit, inserted, trail>>

RECURSIVE NamesVariable(_)
\* the template names a variable somewhere: only then is the resolver called
NamesVariable(elems) ==
    \E i \in 1..Len(elems) :
        \/ elems[i].type = "Variable"
        \/ elems[i].type = "Placeholder" /\ NamesVariable(elems[i].value)

Init ==
    /\ template \in SessionTemplates
    /\ resolver \in (IF NamesVariable(template) THEN Resolvers ELSE {NoResolver})
    /\ docLen = DocLen
    /\ InitRest

Next ==
    \/ New
    \/ RenderStep
    \/ ActiveNewStep
    \/ NextTabstopStep
    \/ PrevTabstopStep
    \/ IsValidStep

Spec == Init /\ [][Next]_vars

\* C10: in every session state reachable by construction and navigation,
\* is_valid(selection) is true if and only if every range of the selection is
\* contained in some range of the currently active tabstop.
C10_IsValidIffContained ==
    pc = "validated" =>
        validRes = (IF NaiveSubset(active.tabstops[active.active_tabstop + 1].ranges,
                                   RangeBoundsOf(selection))
                    THEN "true" ELSE "false")

\* what the code does in a session of ${1:ab} inserted at offset 0, after
\* next_tabstop has activated the placeholder [0,2): the cursor (2,2) at the
\* end of the placeholder is reported as not valid
C10_Observed ==
    /\ pc = "validated"
    /\ template = T_ph
    /\ maps = 0
    /\ active.active_tabstop = 1
    /\ active.tabstops[2].ranges = <<Range(0, 2)>>
    /\ selection = SelectionNew(<<SelRange(2, 2)>>, 0)
    /\ validRes = "false"

(***************************************************************************)
(* One navigation pass over a fresh session, no map in between: the host   *)
(* constructs the session, calls next_tabstop until it returns None, then  *)
(* prev_tabstop until it returns None.  Each call is handed the selection  *)
(* the call before it returned; trail records every call that returned a   *)
(* selection.                                                              *)
(***************************************************************************)
\* ${3:a${2:b${1:c}}}
T_deep ==
    <<PPlaceholder(3, <<PText(<<"a">>),
                        PPlaceholder(2, <<PText(<<"b">>),
                                          PPlaceholder(1, <<PText(<<"c">>)>>)>>)>>)>>
\* $1${2|c|}
T_choiceLast == <<PTabstop(1, None), PChoice(2, << <<"c">> >>)>>
\* $1
T_one == <<PTabstop(1, None)>>

\* ${0:$1}
T_ph0 == <<PPlaceholder(0, <<PTabstop(1, None)>>)>>

NavTemplates ==
    {T_a11b, T_ax1b, T_par, T_vdef, T_mirror, T_odd, T_ph, T_deep, T_choiceLast, T_one,
     T_self, T_choice0, T_ph0}

Visit(op, a, sel, complete) ==
    [op |-> op, idx |-> a.active_tabstop, set |-> a.active_tabstops, sel |-> sel,
     complete |-> complete]

\* current_selection.primary().into()
PrimaryOf(sel) == RangeBoundsOf(sel)[sel.primary + 1]

\* ActiveSnippet::new(primary_idx, direction, snippet)
StartStep ==
    /\ pc = "rendered"
    /\ \E primary_idx \in 0..(points - 1), direction \in Directions :
          LET r == ActiveSnippetNew(primary_idx, direction, rendered)
          IN  /\ active' = r.active
              /\ selection' = r.selection
              /\ trail' = IF r.ok = "some"
                          THEN <<Visit("new", r.active, r.selection, FALSE)>> ELSE trail
              /\ pc' = CASE r.ok = "none" -> "panic"
                         [] r.ok = "hang" -> "hang"
                         [] r.ok = "some" /\ Len(r.active.tabstops) = 1 -> "nosession"
                         [] r.ok = "some" /\ r.selection.ranges = <<>> -> "panic"
                         [] OTHER -> "forward"
    /\ UNCHANGED <<template, fixed, ensured, snippet, rendered, resolver, newline, outText,
                   outLen, points, off, lastTo, superSet, subSet, subsetRes, validRes,
                   navRes, docLen, maps, dbg, prior, edit, inserted>>

\* active.next_tabstop(current_selection), until it returns None
ForwardStep ==
    /\ pc = "forward"
    /\ LET primary_idx == PrimaryIdx(active, PrimaryOf(selection))
           r == NextTabstop(active, primary_idx)
       IN  IF primary_idx = Missing
           THEN pc' = "panic" /\ UNCHANGED <<active, selection, navRes, trail>>
           ELSE /\ active' = r.active
                /\ selection' = IF r.ok = "some" THEN r.selection ELSE selection
                /\ navRes' = [ok |-> r.ok, complete |-> r.complete]
                /\ trail' = IF r.ok = "some"
                            THEN Append(trail, Visit("next", r.active, r.selection, r.complete))
                            ELSE trail
                /\ pc' = CASE r.ok = "hang" -> "hang"
                           [] r.ok = "none" -> "backward"
                           [] r.ok = "some" /\ r.selection.ranges = <<>> -> "panic"
                           [] OTHER -> "forward"
    /\ UNCHANGED <<template, fixed, ensured, snippet, rendered, resolver, newline, outText,
                   outLen, points, off, lastTo, superSet, subSet, subsetRes, validRes,
                   docLen, maps, dbg, prior, edit, inserted>>

\* active.prev_tabstop(current_selection), until it returns None
BackwardStep ==
    /\ pc = "backward"
    /\ LET primary_idx == PrimaryIdx(active, PrimaryOf(selection))
           r == PrevTabstop(active, primary_idx)
       IN  IF primary_idx = Missing
           THEN pc' = "panic" /\ UNCHANGED <<active, selection, navRes, trail>>
           ELSE /\ active' = r.active
                /\ selection' = IF r.ok = "some" THEN r.selection ELSE selection
                /\ navRes' = [ok |-> r.ok, complete |-> FALSE]
                /\ trail' = IF r.ok = "some"
                            THEN Append(trail, Visit("prev", r.active, r.selection, FALSE))
                            ELSE trail
                /\ pc' = CASE r.ok = "hang" -> "hang"
                           [] r.ok = "none" -> "done"
                           [] r.ok = "some" /\ r.selection.ranges = <<>> -> "panic"
                           [] OTHER -> "backward"
    /\ UNCHANGED <<template, fixed, ensured, snippet, rendered, resolver, newline, outText,
                   outLen, points, off, lastTo, superSet, subSet, subsetRes, validRes,
                   docLen, maps, dbg, prior, edit, inserted>>

InitNav ==
    /\ template \in NavTemplates
    /\ resolver \in (IF NamesVariable(template) THEN Resolvers ELSE {NoResolver})
    /\ docLen = DocLen
    /\ InitRest

NextNav == New \/ RenderStep \/ StartStep \/ ForwardStep \/ BackwardStep

SpecNav == InitNav /\ [][NextNav]_vars

(***************************************************************************)
(* C11: activation and the ancestor chain                                  *)
(***************************************************************************)
ParentOf(tabstops, i) == tabstops[i + 1].parent

ParentClosed(tabstops, S) ==
    \A i \in S : IsSome(ParentOf(tabstops, i)) => Unwrap(ParentOf(tabstops, i)) \in S

\* the target plus every ancestor reached through parent links: the least
\* set that holds the target and is closed under taking the parent
WithAncestors(tabstops, target) ==
    LET All == 0..(Len(tabstops) - 1)
        Candidates == {S \in SUBSET All : target \in S /\ ParentClosed(tabstops, S)}
    IN  {i \in All : \A S \in Candidates : i \in S}

Activations == DOMAIN trail

\* C11: whenever activate_tabstop succeeds, the active set is exactly the
\* target plus every ancestor reached through parent links, up to and
\* including the ancestor whose parent is none, and no other tabstop.
C11_ActiveSetIsChain ==
    \A k \in Activations :
        /\ trail[k].set = WithAncestors(active.tabstops, trail[k].idx)
        /\ \E i \in trail[k].set : ~IsSome(ParentOf(active.tabstops, i))

\* an activation of a tabstop nested two placeholders deep
C11_Witness ==
    \E k \in Activations :
        /\ Cardinality(trail[k].set) = 3
        /\ trail[k].set = WithAncestors(active.tabstops, trail[k].idx)

(***************************************************************************)
(* C12: the forward pass                                                   *)
(***************************************************************************)
\* placeholder or choice kind with every range empty
Vacuous(tabstop) == HasPlaceholder(tabstop) /\ AllRangesEmpty(tabstop)

NonVacuous(tabstops) == {i \in 0..(Len(tabstops) - 1) : ~Vacuous(tabstops[i + 1])}

IsForward(v) == v.op \in {"new", "next"}
IsBackward(v) == v.op = "prev"

ForwardVisits == SelectSeq(trail, IsForward)
BackwardVisits == SelectSeq(trail, IsBackward)

Exhausted == pc \in {"backward", "done"}

\* C12: from a fresh session, with no map in between, the construction and
\* the next_tabstop calls up to the one that returns no result return
\* selections for exactly the tabstops that are not vacuous, each exactly
\* once and in strictly ascending resolved index order.
C12_ForwardPass ==
    Exhausted =>
        /\ \A k \in 1..(Len(ForwardVisits) - 1) :
               ForwardVisits[k].idx < ForwardVisits[k + 1].idx
        /\ {ForwardVisits[k].idx : k \in DOMAIN ForwardVisits} = NonVacuous(active.tabstops)

\* an exhausted pass that skipped a vacuous tabstop between two visited ones
C12_Witness ==
    /\ Exhausted
    /\ \E i, j, k \in 0..(Len(active.tabstops) - 1) :
          /\ i < j /\ j < k
          /\ Vacuous(active.tabstops[j + 1])
          /\ \E v, w \in DOMAIN ForwardVisits :
                ForwardVisits[v].idx = i /\ ForwardVisits[w].idx = k

(***************************************************************************)
(* C13: the completion flag of next_tabstop                                *)
(***************************************************************************)
Completions == {k \in DOMAIN trail : trail[k].op = "next" /\ trail[k].complete}

\* C13: next_tabstop reports completion on exactly one call of a run to
\* exhaustion, the call that lands on the final-cursor tabstop at resolved
\* index 0, and on no other call.
C13_CompletionAtFinal ==
    /\ \A k \in Completions : trail[k].idx = LAST_TABSTOP_IDX
    /\ Exhausted => Cardinality(Completions) = 1

\* a run to exhaustion whose completion was reported on a tabstop other than
\* the final-cursor tabstop
C13_Observed ==
    /\ Exhausted
    /\ \E k \in Completions : trail[k].idx # LAST_TABSTOP_IDX

\* a run to exhaustion on which no call reported completion
C13_NeverReported == Exhausted /\ Completions = {}

(***************************************************************************)
(* C14: the backward pass after exhaustion                                 *)
(***************************************************************************)
IdxSeq(visits) == [k \in DOMAIN visits |-> visits[k].idx]

Reverse(seq) == [k \in DOMAIN seq |-> seq[Len(seq) + 1 - k]]

\* the ranges of the tabstop a visit landed on, each with anchor and head
\* swapped
FlippedRanges(v) ==
    LET rs == active.tabstops[v.idx + 1].ranges
    IN  [j \in DOMAIN rs |-> Flip(SelRange(rs[j].start, rs[j].end))]

AllFlipped == \A k \in DOMAIN BackwardVisits :
                  BackwardVisits[k].sel.ranges = FlippedRanges(BackwardVisits[k])

\* C14 as stated: after exhaustion, prev_tabstop called until it returns no
\* result visits the same tabstops the forward pass visited, in exactly
\* reverse order, each with its ranges flipped.
C14_AsStated ==
    pc = "done" =>
        /\ IdxSeq(BackwardVisits) = Reverse(IdxSeq(ForwardVisits))
        /\ AllFlipped

BelowLast(v) == v.idx < Len(active.tabstops) - 1

\* C14 amended: the backward pass visits the tabstops the forward pass
\* visited other than the one at the last resolved index, in exactly
\* reverse order, each with its ranges flipped.
C14_Retrace ==
    pc = "done" =>
        /\ IdxSeq(BackwardVisits) = Reverse(IdxSeq(SelectSeq(ForwardVisits, BelowLast)))
        /\ AllFlipped

\* a finished backward pass over at least two tabstops, one of them with text
C14_Witness ==
    /\ pc = "done"
    /\ Len(BackwardVisits) >= 2
    /\ Len(BackwardVisits) < Len(ForwardVisits)
    /\ \E k \in DOMAIN BackwardVisits :
          \E j \in DOMAIN BackwardVisits[k].sel.ranges :
              BackwardVisits[k].sel.ranges[j].anchor > BackwardVisits[k].sel.ranges[j].head

(***************************************************************************)
(* A session under edits: construction, forward navigation and up to       *)
(* MaxMaps calls of map                                                    *)
(***************************************************************************)
\* a$1
T_a1 == <<PText(<<"a">>), PTabstop(1, None)>>
\* $1$1
T_11 == <<PTabstop(1, None), PTabstop(1, None)>>
\* $1$1$1
T_111 == <<PTabstop(1, None), PTabstop(1, None), PTabstop(1, None)>>

\* ${1:a}$1$1
T_ph11 == <<PPlaceholder(1, <<PText(<<"a">>)>>), PTabstop(1, None), PTabstop(1, None)>>

MapTemplates == {T_one, T_a1, T_ph, T_11, T_111, T_par, T_a11b, T_ph11}

InitMap ==
    /\ template \in MapTemplates
    /\ resolver = NoResolver
    /\ docLen = DocLen
    /\ InitRest

NextMap == New \/ RenderStep \/ ActiveNewStep \/ NextTabstopStep \/ MapStep

SpecMap == InitMap /\ [][NextMap]_vars

(***************************************************************************)
(* C15: an insertion exactly at the start of a tabstop range               *)
(***************************************************************************)
Mapped == pc = "active" /\ edit # <<>>

\* the last map was handed the insertion of n characters at position pos
InsertedAt(pos, n) == edit = ChangeOf(docLen - n, pos, pos, n)

WasActive(i) == (i - 1) \in prior.active_tabstops

\* range j of tabstop i before and after the last map, when none was dropped
Kept(i) == Len(active.tabstops[i].ranges) = Len(prior.tabstops[i].ranges)

\* C15: for every tabstop range, empty ones included, a map of an insertion
\* of n characters exactly at the range's start leaves the start unchanged
\* and increases the end by n when the tabstop is active, and increases the
\* start by n when it is not active.
C15_InsertAtStart ==
    Mapped =>
        \A n \in 1..MaxInsert, i \in DOMAIN prior.tabstops :
            \A j \in DOMAIN prior.tabstops[i].ranges :
                LET old == prior.tabstops[i].ranges[j]
                    new == active.tabstops[i].ranges[j]
                IN  (InsertedAt(old.start, n) /\ Kept(i)) =>
                        IF WasActive(i)
                        THEN new.start = old.start /\ new.end = old.end + n
                        ELSE new.start = old.start + n

\* an active tabstop with an empty range strictly inside its insertion range
\* whose end did not move when text was inserted at it
C15_Observed ==
    /\ Mapped
    /\ Len(prior.ranges) = 1
    /\ \E n \in 1..MaxInsert, i \in DOMAIN prior.tabstops :
          /\ WasActive(i) /\ Kept(i)
          /\ \E j \in DOMAIN prior.tabstops[i].ranges :
                LET old == prior.tabstops[i].ranges[j]
                    new == active.tabstops[i].ranges[j]
                IN  /\ old.start = old.end
                    /\ prior.ranges[1].start < old.start
                    /\ old.end < prior.ranges[1].end
                    /\ InsertedAt(old.start, n)
                    /\ new = old

(***************************************************************************)
(* A session into which a second snippet is inserted: the host renders the *)
(* second template over the current selection and hands the result to      *)
(* insert_snippet                                                          *)
(***************************************************************************)
InsertTemplates == {T_one, T_ph, T_par, T_deep, T_a11b}

InnerTemplates == {T_one, T_ph, T_par}

InnerNewline == <<"LF", " ">>

\* the (from, to) bounds of the current selection, as render takes them
BoundsOfSelection(sel) ==
    [i \in DOMAIN sel.ranges |-> <<RangeBoundsOf(sel)[i].start, RangeBoundsOf(sel)[i].end>>]

\* active.insert_snippet(snippet)
InsertSnippetStep ==
    /\ pc = "active"
    /\ inserted = NoRendered
    /\ selection.ranges # <<>>
    /\ \E t \in InnerTemplates :
          LET r == Render(SnippetNew(t), BoundsOfSelection(selection), InnerNewline,
                          NoResolver)
          IN  /\ ~r.overflow
              /\ inserted' = r.snippet
              /\ prior' = active
              /\ active' = InsertSnippet(active, r.snippet)
    /\ UNCHANGED <<template, fixed, ensured, snippet, rendered, resolver, newline, outText,
                   outLen, points, off, lastTo, superSet, subSet, subsetRes, selection,
                   validRes, navRes, docLen, maps, dbg, edit, trail, pc>>

InitInsert ==
    /\ template \in InsertTemplates
    /\ resolver = NoResolver
    /\ docLen = DocLen
    /\ InitRest

NextInsert == New \/ RenderStep \/ ActiveNewStep \/ NextTabstopStep \/ InsertSnippetStep

SpecInsert == InitInsert /\ [][NextInsert]_vars

(***************************************************************************)
(* C16, C17: the table after insert_snippet                                *)
(***************************************************************************)
Inserted == inserted # NoRendered

\* the active tabstop T at the insertion and its parent P
InsertedAtIdx == prior.active_tabstop
FormerParent == prior.tabstops[InsertedAtIdx + 1].parent

\* where the record that was at index i # T stands after the splice
MovedTo(i) == IF i > InsertedAtIdx THEN i + Len(inserted.tabstops) - 1 ELSE i

\* C16: after insert_snippet(S) while the active tabstop T has parent P
\* (possibly none), every tabstop of S that has no parent inside S has the
\* parent P in the session table.
C16_TopLevelParent ==
    Inserted =>
        \A k \in DOMAIN inserted.tabstops :
            inserted.tabstops[k].parent = None =>
                active.tabstops[InsertedAtIdx + k].parent =
                    (IF FormerParent = None THEN None
                     ELSE Some(MovedTo(Unwrap(FormerParent))))

\* an insertion at a tabstop whose parent stands behind it in the table:
\* the link given to the inserted records designates one of themselves
C16_Observed ==
    /\ Inserted
    /\ IsSome(FormerParent)
    /\ Unwrap(FormerParent) > InsertedAtIdx
    /\ \E k \in DOMAIN inserted.tabstops :
          /\ inserted.tabstops[k].parent = None
          /\ active.tabstops[InsertedAtIdx + k].parent = FormerParent
          /\ Unwrap(FormerParent) < InsertedAtIdx + Len(inserted.tabstops)

\* C17 as stated: insert_snippet(S) increases the number of tabstops of the
\* session by exactly the number of tabstops of S.
C17_AsStated ==
    Inserted => Len(active.tabstops) = Len(prior.tabstops) + Len(inserted.tabstops)

\* C17 amended: insert_snippet(S) increases the number of tabstops of the
\* session by exactly the number of tabstops of S less one, the records of S
\* taking the place of the active tabstop's record.
C17_CountGrowth ==
    Inserted =>
        /\ Len(active.tabstops) = Len(prior.tabstops) + Len(inserted.tabstops) - 1
        /\ \A i \in 0..(Len(prior.tabstops) - 1) :
               i # InsertedAtIdx =>
                   active.tabstops[MovedTo(i) + 1].ranges = prior.tabstops[i + 1].ranges

\* a snippet of three tabstops inserted at a tabstop reached by navigation
C17_Witness ==
    /\ Inserted
    /\ InsertedAtIdx >= 1
    /\ InsertedAtIdx + 1 < Len(prior.tabstops)
    /\ Len(inserted.tabstops) >= 3
    /\ Len(active.tabstops) = Len(prior.tabstops) + Len(inserted.tabstops) - 1

(***************************************************************************)
(* C18: the ranges after map are well formed and inside an insertion range *)
(***************************************************************************)
Inside(r, outer) == outer.start <= r.start /\ r.end <= outer.end

\* C18: after every map, each retained tabstop range has start <= end and
\* lies inside a top-level insertion range, and the debug assertion
\* range.start <= range.end does not fail; this includes a tabstop that is
\* not active and stands exactly at an end of its insertion range when text
\* is inserted at that position.
C18_RangesWellFormed ==
    Mapped =>
        /\ "range.start <= range.end" \notin dbg
        /\ \A i \in DOMAIN active.tabstops :
               \A j \in DOMAIN active.tabstops[i].ranges :
                   LET r == active.tabstops[i].ranges[j]
                   IN  /\ r.start <= r.end
                       /\ \E k \in DOMAIN active.ranges : Inside(r, active.ranges[k])

\* text inserted at the end of the insertion range, where a tabstop that is
\* not active stands: the tabstop's range is retained with start > end
C18_Observed ==
    /\ Mapped
    /\ "range.start <= range.end" \in dbg
    /\ Len(prior.ranges) = 1
    /\ \E n \in 1..MaxInsert, i \in DOMAIN prior.tabstops :
          /\ ~WasActive(i) /\ Kept(i)
          /\ Len(prior.tabstops[i].ranges) = 1
          /\ prior.tabstops[i].ranges[1].start = prior.ranges[1].end
          /\ prior.ranges[1].start < prior.ranges[1].end
          /\ InsertedAt(prior.ranges[1].end, n)
          /\ active.tabstops[i].ranges[1].start > active.tabstops[i].ranges[1].end

(***************************************************************************)
(* C19: the ranges of a tabstop after map are sorted and disjoint          *)
(***************************************************************************)
\* C19: after every map, the ranges of each tabstop are sorted and pairwise
\* non-overlapping: consecutive retained ranges a, b of one tabstop have
\* a.start <= b.start and a.end <= b.start, and the debug assertion
\* prev.start <= range.start does not fail.
C19_SortedDisjoint ==
    Mapped =>
        /\ "prev.start <= range.start" \notin dbg
        /\ \A i \in DOMAIN active.tabstops :
               \A j \in 1..(Len(active.tabstops[i].ranges) - 1) :
                   LET a == active.tabstops[i].ranges[j]
                       b == active.tabstops[i].ranges[j + 1]
                   IN  a.start <= b.start /\ a.end <= b.start

\* the ordering alone, whatever the assertions did
C19_OrderingOnly ==
    Mapped =>
        \A i \in DOMAIN active.tabstops :
            \A j \in 1..(Len(active.tabstops[i].ranges) - 1) :
                LET a == active.tabstops[i].ranges[j]
                    b == active.tabstops[i].ranges[j + 1]
                IN  a.start <= b.start /\ a.end <= b.start

\* a map in which the repair step moved a range forward and the range after
\* it then started in front of it: the assertion prev.start <= range.start
\* failed
C19_Observed ==
    /\ Mapped
    /\ "prev.start <= range.start" \in dbg
    /\ \E i \in DOMAIN prior.tabstops :
          /\ WasActive(i) /\ Kept(i)
          /\ Len(prior.tabstops[i].ranges) = 3
          /\ active.tabstops[i].ranges[2].start > prior.tabstops[i].ranges[3].start

(***************************************************************************)
(* C20: map after an earlier map dropped ranges                            *)
(***************************************************************************)
\* C20: map does not fail, for any sequence of edits on a session with at
\* least one insertion range: also in a map that follows one which dropped
\* the ranges of an inverted insertion range, advancing to the next
\* insertion range never meets None.
C20_MapNeverFails ==
    maps >= 1 => "snippet_ranges.next().unwrap()" \notin dbg

Inverted(r) == r.start > r.end

\* a second map that met None on a session whose first insertion range was
\* inverted by the first map
C20_Observed ==
    /\ maps = 2
    /\ pc = "panic"
    /\ "snippet_ranges.next().unwrap()" \in dbg
    /\ Len(prior.ranges) = 2
    /\ Inverted(prior.ranges[1])
    /\ \E i \in DOMAIN prior.tabstops :
          Len(prior.tabstops[i].ranges) % Len(prior.ranges) # 0

\* a second map that completed and dropped a range of the second insertion
\* range, which is not inverted: the range was taken for one of the first
C20_Misattributed ==
    /\ maps = 2
    /\ pc = "active"
    /\ Len(prior.ranges) = 2
    /\ Inverted(prior.ranges[1]) /\ Inverted(active.ranges[1])
    /\ ~Inverted(prior.ranges[2]) /\ ~Inverted(active.ranges[2])
    /\ \E i \in DOMAIN prior.tabstops :
          /\ Len(prior.tabstops[i].ranges) = 2
          /\ Len(active.tabstops[i].ranges) = 1

(***************************************************************************)
(* C21: the active set in every state of a session                         *)
(***************************************************************************)
InSession == pc \in {"active", "forward", "backward", "done"}

\* C21: in every state of a session, whatever calls led to it, the active
\* set is the tabstop the active index designates together with all of its
\* ancestors along the parent links.
C21_ActiveSetOfIndex ==
    InSession =>
        active.active_tabstops = WithAncestors(active.tabstops, active.active_tabstop)

\* a next_tabstop that returned no result after skipping a vacuous tabstop:
\* the active index stands on the skipped tabstop, the active set is still
\* the one of the tabstop visited before
C21_Observed ==
    /\ pc = "backward"
    /\ navRes.ok = "none"
    /\ Vacuous(active.tabstops[active.active_tabstop + 1])
    /\ active.active_tabstop \notin active.active_tabstops
    /\ \E k \in DOMAIN trail : trail[k].set = active.active_tabstops

\* an insert_snippet after which the active set is not the chain of the
\* record the active index designates
C21_AfterInsert ==
    /\ Inserted
    /\ pc = "active"
    /\ active = InsertSnippet(prior, inserted)
    /\ active.active_tabstops # WithAncestors(active.tabstops, active.active_tabstop)

(***************************************************************************)
(* C22: the parent links of the elaborated table                           *)
(***************************************************************************)
\* the ancestors of tabstop i: its parent and the parent's ancestors
StrictAncestors(tabstops, i) ==
    IF IsSome(ParentOf(tabstops, i))
    THEN WithAncestors(tabstops, Unwrap(ParentOf(tabstops, i)))
    ELSE {}

Acyclic(tabstops) ==
    \A i \in 0..(Len(tabstops) - 1) : i \notin StrictAncestors(tabstops, i)

\* C22: for every template the parent links of the elaborated table are
\* acyclic, no tabstop is its own ancestor, so the ancestor walk of
\* activate_tabstop terminates.
C22_ParentsAcyclic ==
    pc = "elaborated" =>
        /\ Acyclic(snippet.tabstops)
        /\ \A i \in 0..(Len(snippet.tabstops) - 1) :
               ~WalkParents(snippet.tabstops, ParentOf(snippet.tabstops, i), {i},
                            Len(snippet.tabstops) + 1).hang

\* a raw index reused inside its own placeholder default: the record is its
\* own parent and the walk from it never ends
C22_Observed ==
    /\ pc = "elaborated"
    /\ \E i \in 0..(Len(snippet.tabstops) - 1) :
          /\ ParentOf(snippet.tabstops, i) = Some(i)
          /\ snippet.tabstops[i + 1].kind.k = "Placeholder"
          /\ WalkParents(snippet.tabstops, Some(i), {i}, Len(snippet.tabstops) + 1).hang

\* a cycle of parent links through two records
C22_TwoCycle ==
    /\ pc = "elaborated"
    /\ \E i, j \in 0..(Len(snippet.tabstops) - 1) :
          /\ i # j
          /\ ParentOf(snippet.tabstops, i) = Some(j)
          /\ i \in StrictAncestors(snippet.tabstops, j)

(***************************************************************************)
(* C23: ActiveSnippet::new on a freshly rendered snippet                   *)
(***************************************************************************)
Constructed == pc \notin {"parsed", "elaborated", "rendered", "overflow"}

\* C23: ActiveSnippet::new on a freshly rendered snippet always activates
\* resolved index 0: the expectation that before the first map all tabstops
\* are valid never fails, also when $0 is a choice or a placeholder whose
\* default renders to no text.
C23_NewActivates ==
    Constructed =>
        /\ trail # <<>>
        /\ trail[1].op = "new"
        /\ trail[1].idx = 0

\* the construction on a snippet whose $0 is a choice: the activation of
\* index 0 was refused and the expectation failed
C23_Observed ==
    /\ pc = "panic"
    /\ trail = <<>>
    /\ rendered.tabstops[1].kind.k = "Choice"
    /\ Vacuous(rendered.tabstops[1])
    /\ ActiveSnippetNew(0, "Forward", rendered).ok = "none"

\* the same with $0 a placeholder whose default renders to no text
C23_EmptyDefault ==
    /\ pc = "panic"
    /\ trail = <<>>
    /\ rendered.tabstops[1].kind.k = "Placeholder"
    /\ Vacuous(rendered.tabstops[1])

(***************************************************************************)
(* C24: the kind of a rendered placeholder                                 *)
(***************************************************************************)
\* C24: a rendered tabstop has kind Placeholder only if rendering its
\* default produced text of non-zero length; a placeholder whose default
\* renders to the empty string stays Empty.
C24_PlaceholderHasText ==
    pc = "rendered" =>
        \A i \in DOMAIN rendered.tabstops :
            rendered.tabstops[i].kind.k = "Placeholder" =>
                \A j \in DOMAIN rendered.tabstops[i].ranges :
                    ~RangeIsEmpty(rendered.tabstops[i].ranges[j])

\* a placeholder whose default holds only a tabstop: it rendered no text,
\* its range is empty and its kind is Placeholder
C24_Observed ==
    /\ pc = "rendered"
    /\ \E i \in DOMAIN rendered.tabstops :
          /\ rendered.tabstops[i].kind.k = "Placeholder"
          /\ rendered.tabstops[i].ranges # <<>>
          /\ AllRangesEmpty(rendered.tabstops[i])
          /\ snippet.tabstops[i].kind.k = "Placeholder"
          /\ Len(snippet.tabstops[i].kind.default) = 1
          /\ snippet.tabstops[i].kind.default[1].type = "Tabstop"

(***************************************************************************)
(* C25: every rendered tabstop has ranges                                  *)
(***************************************************************************)
\* C25: after rendering at one or more insertion points every tabstop of the
\* rendered table has at least one range per insertion point; no record of
\* the elaborated table is left with an empty range list.
C25_EveryTabstopHasRanges ==
    pc = "rendered" =>
        \A i \in DOMAIN rendered.tabstops :
            Len(rendered.tabstops[i].ranges) >= points

\* the placeholder record of a tabstop written only inside a default that
\* elaboration discarded as a duplicate: no pass reaches it, it has no range
C25_Observed ==
    /\ pc = "rendered"
    /\ \E i \in DOMAIN rendered.tabstops :
          /\ rendered.tabstops[i].ranges = <<>>
          /\ WritesRaw(template, snippet.tabstops[i].idx)
          /\ Reached(snippet.elements, i - 1, Len(snippet.tabstops) + 1) = 0
          /\ IsSome(snippet.tabstops[i].parent)
          /\ ~NamesVariable(template)

(***************************************************************************)
(* C26: the outer session after insert_snippet                             *)
(***************************************************************************)
\* the records of the outer session that insert_snippet keeps
KeptRecords == {i \in 0..(Len(prior.tabstops) - 1) : i # InsertedAtIdx}

\* C26: insert_snippet leaves the ancestor chain of the outer session
\* unaffected: every tabstop that was in the table before the call, other
\* than the replaced active one, has the same record as parent afterwards,
\* its link designating that record where the splice moved it, and the
\* top-level insertion ranges are unchanged.
C26_OuterChainKept ==
    Inserted =>
        /\ active.ranges = prior.ranges
        /\ \A i \in KeptRecords :
               LET before == ParentOf(prior.tabstops, i)
                   after == ParentOf(active.tabstops, MovedTo(i))
               IN  IF before = None THEN after = None
                   ELSE Unwrap(before) # InsertedAtIdx =>
                            after = Some(MovedTo(Unwrap(before)))

\* a kept record whose parent stands behind the replaced tabstop: after the
\* splice its link designates another record than before
C26_Observed ==
    /\ Inserted
    /\ Len(inserted.tabstops) >= 2
    /\ \E i \in KeptRecords :
          LET before == ParentOf(prior.tabstops, i)
          IN  /\ IsSome(before)
              /\ Unwrap(before) > InsertedAtIdx
              /\ ParentOf(active.tabstops, MovedTo(i)) = before
              /\ active.tabstops[Unwrap(before) + 1].ranges
                     # prior.tabstops[Unwrap(before) + 1].ranges

(***************************************************************************)
(* C27: tabstop transforms that are not valid                              *)
(***************************************************************************)
\* the option characters Transform::new knows
KnownOptions == {"i", "m", "g"}

UnknownOption(tr) == \E k \in DOMAIN tr.options : tr.options[k] \notin KnownOptions

NoRegex(tr) == ~RegexCompiles(tr.regex)

\* what makes a transform not valid: its regular expression alone, or also
\* its option characters
Invalid(tr, what) == NoRegex(tr) \/ (what = "any" /\ UnknownOption(tr))

\* does the raw template write tabstop n with a transform that is not valid
RECURSIVE WritesInvalid(_, _, _)
WritesInvalid(elems, n, what) ==
    \E j \in 1..Len(elems) :
        \/ elems[j].type = "Tabstop" /\ elems[j].tabstop = n /\ IsSome(elems[j].transform)
           /\ Invalid(Unwrap(elems[j].transform), what)
        \/ elems[j].type = "Placeholder" /\ WritesInvalid(elems[j].value, n, what)
        \/ elems[j].type = "Variable" /\ IsSome(elems[j].default)
           /\ WritesInvalid(Unwrap(elems[j].default), n, what)

\* the records of the tabstops written once, with a transform that is not
\* valid, are of kind Empty
DroppedWhere(what) ==
    pc = "elaborated" =>
        \A n \in 0..(MaxRaw + 1) :
            (WritesInvalid(template, n, what) /\ RefCount(template, n) = 1) =>
                /\ RecordsOf(snippet.tabstops, n) # {}
                /\ \A i \in RecordsOf(snippet.tabstops, n) :
                       snippet.tabstops[i].kind.k = "Empty"

\* C27: a tabstop transform whose options hold an unrecognized character, or
\* whose regular expression does not compile, is dropped during elaboration
\* and its tabstop is recorded with kind Empty.
C27_InvalidTransformDropped == DroppedWhere("any")

\* the part of C27 about regular expressions that do not compile
C27_BadRegexDropped == DroppedWhere("regex")

\* a transform with the option character q: it was kept, the tabstop's
\* record has kind Transform
C27_Observed ==
    /\ pc = "elaborated"
    /\ template = T_odd
    /\ UnknownOption(OddTransform)
    /\ \E i \in RecordsOf(snippet.tabstops, 1) :
          /\ snippet.tabstops[i].kind.k = "Transform"
          /\ snippet.tabstops[i].kind.transform = TransformNew(OddTransform)

\* a transform whose regular expression does not compile: Empty record
C27_RegexObserved ==
    /\ pc = "elaborated"
    /\ \E n \in 0..MaxRaw :
          /\ WritesInvalid(template, n, "regex")
          /\ RefCount(template, n) = 1
          /\ \A i \in RecordsOf(snippet.tabstops, n) : snippet.tabstops[i].kind.k = "Empty"

=============================================================================
